---- MODULE Spec2Model ----
(***************************************************************************)
(* A model of wamu-rs: the authorized key refresh orchestrator             *)
(* (crates/cggmp/src/authorized_key_refresh.rs) as instantiated by         *)
(* ShareAddition and ShareRemoval, and the augmented FS-DKR key refresh    *)
(* (crates/cggmp/src/key_refresh.rs).                                      *)
(*                                                                         *)
(* The wrapped round-based machines (QuorumApproval, the upstream          *)
(* KeyRefresh engine) are black boxes: every call on them takes its        *)
(* outcome from a record `nd` of nondeterministic choices.                 *)
(***************************************************************************)
EXTENDS Integers, Sequences, FiniteSets, TLC

VARIABLES
    self,       \* the orchestrator struct (ShareAddition / ShareRemoval)
    ret,        \* the last call on the orchestrator and what it returned
    sent,       \* messages the host has taken out of the composite queue
    produced,   \* number of messages the sub-machines have produced so far
    picked_ok,  \* number of pick_output calls that returned Some(Ok(_))
    kr,         \* an AugmentedKeyRefresh party of its own (SpecKR)
    run,        \* a run of several orchestrators over a network (SpecRun)
    call        \* a call of one of the core functions (SpecCore)

vars == <<self, ret, sent, produced, picked_ok, kr, run, call>>

-----------------------------------------------------------------------------
(* Bounds of the model.                                                    *)

MaxProduced == 3
MaxCount == 2
RunParties == 3
MaxSigningShare == 1
MaxNewThreshold == 3
MaxNewParties == 5
MaxEmit == 1
InitTotalRounds == 1
RefreshTotalRounds == 1

\* Option<T>: None is the empty sequence, Some(x) is <<x>>.
None == <<>>

Some(x) == <<x>>

is_none(o) == o = <<>>

is_some(o) == o # <<>>

unwrap(o) == o[1]

Min(a, b) == IF a < b THEN a ELSE b

\* Result<(), E>: the error kind and the wrapped inner error.
OkRes == [err |-> "Ok", inner |-> "-"]

ErrRes(e, i) == [err |-> e, inner |-> i]

-----------------------------------------------------------------------------
(* The wrapped sub-machines, seen through round_based::StateMachine.       *)
(* `round` counts up to `total`; the machine is finished at `total` until  *)
(* its output is picked (`gone`).  The body of an emitted message names   *)
(* the machine that produced it and its number in the order of production. *)
(* A call may emit and then fail.  A call's result lists in `delivered`    *)
(* the messages that were handed to a sub-machine during the call.         *)

Emitted(sm, n, p) ==
    [k \in 1..n |-> [ sender |-> sm.party_ind,
                      receiver |-> None,
                      body |-> [by |-> sm.name, n |-> p + k] ]]

NewSubMachine(name, ind, total, emit, p) ==
    [ name |-> name,
      party_ind |-> ind,
      round |-> 0,
      total |-> total,
      gone |-> FALSE,
      message_queue |-> Emitted([party_ind |-> ind, name |-> name], emit, p) ]

sub_is_finished(sm) == sm.round = sm.total /\ ~sm.gone

Advance(sm, nd) == IF nd.adv /\ sm.round < sm.total THEN sm.round + 1 ELSE sm.round

sub_handle_incoming(sm, m, nd, p) ==
    [ sm |-> [sm EXCEPT !.round = IF nd.res = "Ok" THEN Advance(sm, nd) ELSE @,
                        !.message_queue = @ \o Emitted(sm, nd.emit, p)],
      res |-> nd.res,
      produced |-> p + nd.emit ]

sub_proceed(sm, nd, p) ==
    [ sm |-> [sm EXCEPT !.round = IF nd.res = "Ok" THEN Advance(sm, nd) ELSE @,
                        !.message_queue = @ \o Emitted(sm, nd.emit, p)],
      res |-> nd.res,
      produced |-> p + nd.emit ]

\* KeyRefresh::pick_output through the augmented wrapper: the output is taken
\* once; augment_output may fail.
sub_pick_output(sm, nd) ==
    IF sm.gone THEN [sm |-> sm, out |-> "Some(Err)"]
    ELSE IF sm.round # sm.total THEN [sm |-> sm, out |-> "None"]
    ELSE [sm |-> [sm EXCEPT !.gone = TRUE],
          out |-> IF nd.res = "Err" THEN "Some(Err)" ELSE "Some(Ok)"]

-----------------------------------------------------------------------------
(* AugmentedKeyRefresh::new (key_refresh.rs).  `effects` lists, in order,  *)
(* what the constructor did before it returned.                            *)

AugmentedKeyRefresh_new_ge(a, nd) ==
    IF a.new_threshold >= a.n_parties \div 2
    THEN [res |-> "BadFSDKRThreshold", effects |-> <<>>]
    ELSE LET rec == is_some(a.local_key_option) /\ is_some(a.signing_share_option)
                        /\ is_some(a.sub_share_option)
             e1 == IF rec THEN <<"reconstruct">> ELSE <<>>
         IN  IF rec /\ nd.new = "Core"
             THEN [res |-> "Core", effects |-> e1]
             ELSE IF nd.new = "StateMachine"
             THEN [res |-> "StateMachine", effects |-> e1 \o <<"KeyRefresh::new">>]
             ELSE [res |-> "Ok",
                   effects |-> e1 \o <<"KeyRefresh::new", "update_augmented_message_queue">>]

\* The threshold check made after the reconstruction and the engine's
\* construction instead of before them.
AugmentedKeyRefresh_new_check_last(a, nd) ==
    LET rec == is_some(a.local_key_option) /\ is_some(a.signing_share_option)
                   /\ is_some(a.sub_share_option)
        e1 == IF rec THEN <<"reconstruct">> ELSE <<>>
    IN  IF rec /\ nd.new = "Core"
        THEN [res |-> "Core", effects |-> e1]
        ELSE IF nd.new = "StateMachine"
        THEN [res |-> "StateMachine", effects |-> e1 \o <<"KeyRefresh::new">>]
        ELSE IF a.new_threshold > a.n_parties \div 2
        THEN [res |-> "BadFSDKRThreshold", effects |-> e1 \o <<"KeyRefresh::new">>]
        ELSE [res |-> "Ok",
              effects |-> e1 \o <<"KeyRefresh::new", "update_augmented_message_queue">>]

AugmentedKeyRefresh_new(a, nd) ==
    IF a.new_threshold > a.n_parties \div 2
    THEN [res |-> "BadFSDKRThreshold", effects |-> <<>>]
    ELSE LET rec == is_some(a.local_key_option) /\ is_some(a.signing_share_option)
                        /\ is_some(a.sub_share_option)
             e1 == IF rec THEN <<"reconstruct">> ELSE <<>>
         IN  IF rec /\ nd.new = "Core"
             THEN [res |-> "Core", effects |-> e1]
             ELSE IF nd.new = "StateMachine"
             THEN [res |-> "StateMachine", effects |-> e1 \o <<"KeyRefresh::new">>]
             ELSE [res |-> "Ok",
                   effects |-> e1 \o <<"KeyRefresh::new", "update_augmented_message_queue">>]

-----------------------------------------------------------------------------
(* The AuthorizedKeyRefresh trait (authorized_key_refresh.rs).             *)

map_body(msg, tag) == [msg EXCEPT !.body = [tag |-> tag, inner |-> @]]

MapQueue(q, tag) == [k \in 1..Len(q) |-> map_body(q[k], tag)]

update_composite_message_queue_prepend(s) ==
    IF is_none(s.refresh_state_machine)
    THEN LET new_messages == s.init_state_machine.message_queue
         IN  [s EXCEPT !.init_state_machine.message_queue = <<>>,
                       !.message_queue = MapQueue(new_messages, "Init") \o @]
    ELSE LET new_messages == unwrap(s.refresh_state_machine).message_queue
         IN  [s EXCEPT !.refresh_state_machine[1].message_queue = <<>>,
                       !.message_queue = MapQueue(new_messages, "Refresh") \o @]

update_composite_message_queue(s) ==
    IF is_none(s.refresh_state_machine)
    THEN LET new_messages == s.init_state_machine.message_queue
         IN  [s EXCEPT !.init_state_machine.message_queue = <<>>,
                       !.message_queue = @ \o MapQueue(new_messages, "Init")]
    ELSE LET new_messages == unwrap(s.refresh_state_machine).message_queue
         IN  [s EXCEPT !.refresh_state_machine[1].message_queue = <<>>,
                       !.message_queue = @ \o MapQueue(new_messages, "Refresh")]

\* ShareRemoval::create_key_refresh: the arguments it passes to
\* AugmentedKeyRefresh::new (the local key is cloned, never taken).
create_key_refresh(s) ==
    [ signing_share_option |-> s.signing_share_option,
      sub_share_option |-> s.sub_share_option,
      local_key_option |-> s.local_key_option,
      new_party_index_option |-> None,
      new_threshold |-> s.threshold,
      n_parties |-> s.n_parties,
      current_threshold_option |-> None ]

\* The arguments the orchestrator in state s passes to
\* AugmentedKeyRefresh::new at the transition edge.
key_refresh_args(s) ==
    LET is_new_party == is_none(s.local_key_option)
    IN  IF s.kind = "ShareRemoval" THEN create_key_refresh(s)
        ELSE [ signing_share_option |-> s.signing_share_option,
               sub_share_option |-> s.sub_share_option,
               local_key_option |-> s.local_key_option,
               new_party_index_option |-> IF is_new_party THEN Some(s.idx) ELSE None,
               new_threshold |-> s.threshold,
               n_parties |-> s.n_parties,
               current_threshold_option |->
                   IF is_new_party THEN Some(s.threshold) ELSE None ]

\* The new refresh machine's first messages left in its own queue.
init_key_refresh_no_update(s, nd, p) ==
    IF is_none(s.refresh_state_machine)
    THEN LET is_new_party == is_none(s.local_key_option)
             args == key_refresh_args(s)
             \* self.local_key_option.take() is evaluated with the arguments
             taken == IF s.kind = "ShareRemoval" THEN s
                      ELSE [s EXCEPT !.local_key_option = None]
             r == AugmentedKeyRefresh_new(args, nd)
         IN  IF r.res # "Ok"
             THEN [self |-> taken, res |-> ErrRes("Refresh", r.res), produced |-> p]
             ELSE [self |-> [taken EXCEPT !.refresh_state_machine =
                                    Some(NewSubMachine("refresh", s.idx, RefreshTotalRounds,
                                                       nd.new_emit, p))],
                   res |-> OkRes,
                   produced |-> p + nd.new_emit]
    ELSE [self |-> s, res |-> OkRes, produced |-> p]

\* ShareAddition::init_key_refresh; ShareRemoval goes through
\* create_key_refresh.
init_key_refresh(s, nd, p) ==
    IF is_none(s.refresh_state_machine)
    THEN LET is_new_party == is_none(s.local_key_option)
             args == key_refresh_args(s)
             \* self.local_key_option.take() is evaluated with the arguments
             taken == IF s.kind = "ShareRemoval" THEN s
                      ELSE [s EXCEPT !.local_key_option = None]
             r == AugmentedKeyRefresh_new(args, nd)
         IN  IF r.res # "Ok"
             THEN [self |-> taken, res |-> ErrRes("Refresh", r.res), produced |-> p]
             ELSE [self |-> update_composite_message_queue(
                                [taken EXCEPT !.refresh_state_machine =
                                    Some(NewSubMachine("refresh", s.idx, RefreshTotalRounds,
                                                       nd.new_emit, p))]),
                   res |-> OkRes,
                   produced |-> p + nd.new_emit]
    ELSE [self |-> s, res |-> OkRes, produced |-> p]

perform_transition_unconditional(s, nd, p) ==
    IF is_none(s.refresh_state_machine)
    THEN init_key_refresh(s, nd, p)
    ELSE [self |-> s, res |-> OkRes, produced |-> p]

perform_transition(s, nd, p) ==
    IF is_none(s.refresh_state_machine) /\ sub_is_finished(s.init_state_machine)
    THEN init_key_refresh(s, nd, p)
    ELSE [self |-> s, res |-> OkRes, produced |-> p]

-----------------------------------------------------------------------------
(* impl StateMachine (impl_state_machine_for_authorized_key_refresh).      *)

Delivered(r, d) ==
    [self |-> r.self, res |-> r.res, produced |-> r.produced, delivered |-> d]

Inner(msg) == [sender |-> msg.sender, receiver |-> msg.receiver, body |-> msg.body.inner]

\* The rejection made after the queues are drained.
OutOfOrder_draining(s, p) ==
    [self |-> update_composite_message_queue(s), res |-> ErrRes("OutOfOrderMessage", "-"),
     produced |-> p, delivered |-> <<>>]

OutOfOrder(s, p) ==
    [self |-> s, res |-> ErrRes("OutOfOrderMessage", "-"), produced |-> p, delivered |-> <<>>]

\* The arm of handle_incoming that forwards to the initialization machine.
forward_init(s, msg, nd, p) ==
    LET r == sub_handle_incoming(s.init_state_machine, Inner(msg), nd, p)
        s1 == [s EXCEPT !.init_state_machine = r.sm]
        d == <<[to |-> "init", msg |-> Inner(msg)]>>
    IN  IF r.res = "Err"
        THEN [self |-> s1, res |-> ErrRes("Init", "Err"), produced |-> r.produced,
              delivered |-> d]
        ELSE Delivered(perform_transition(update_composite_message_queue(s1),
                                          nd, r.produced), d)

\* An error of the refresh machine reported under the other phase's variant.
forward_refresh_as_init(s, msg, nd, p) ==
    LET r == sub_handle_incoming(unwrap(s.refresh_state_machine), Inner(msg), nd, p)
        s1 == [s EXCEPT !.refresh_state_machine = Some(r.sm)]
        d == <<[to |-> "refresh", msg |-> Inner(msg)]>>
    IN  IF r.res = "Err"
        THEN [self |-> s1, res |-> ErrRes("Init", "Err"), produced |-> r.produced,
              delivered |-> d]
        ELSE Delivered(perform_transition(update_composite_message_queue(s1),
                                          nd, r.produced), d)

\* The arm of handle_incoming that forwards to the refresh machine.
forward_refresh(s, msg, nd, p) ==
    LET r == sub_handle_incoming(unwrap(s.refresh_state_machine), Inner(msg), nd, p)
        s1 == [s EXCEPT !.refresh_state_machine = Some(r.sm)]
        d == <<[to |-> "refresh", msg |-> Inner(msg)]>>
    IN  IF r.res = "Err"
        THEN [self |-> s1, res |-> ErrRes("Refresh", "Err"), produced |-> r.produced,
              delivered |-> d]
        ELSE Delivered(perform_transition(update_composite_message_queue(s1),
                                          nd, r.produced), d)

handle_incoming_no_phase_check(s, msg, nd, p) ==
    IF msg.body.tag = "Init"
    THEN forward_init(s, msg, nd, p)
    ELSE IF is_some(s.refresh_state_machine)
         THEN forward_refresh(s, msg, nd, p)
         ELSE OutOfOrder(s, p)

handle_incoming_buffering(s, msg, nd, p) ==
    IF msg.body.tag = "Init"
    THEN IF is_none(s.refresh_state_machine)
         THEN forward_init(s, msg, nd, p)
         ELSE OutOfOrder(s, p)
    ELSE IF is_some(s.refresh_state_machine)
         THEN forward_refresh(s, msg, nd, p)
         ELSE IF s.kind = "ShareRemoval"
              THEN [ self |-> [s EXCEPT !.out_of_order_buffer = Append(@, msg)],
                     res |-> OkRes, produced |-> p, delivered |-> <<>> ]
              ELSE OutOfOrder(s, p)

handle_incoming(s, msg, nd, p) ==
    IF msg.body.tag = "Init"
    THEN IF is_none(s.refresh_state_machine)
         THEN forward_init(s, msg, nd, p)
         ELSE OutOfOrder(s, p)
    ELSE IF is_some(s.refresh_state_machine)
         THEN forward_refresh(s, msg, nd, p)
         ELSE OutOfOrder(s, p)

\* proceed forwarded to the initialization machine in either phase.
proceed_to_init(s, nd, p) ==
    LET r == sub_proceed(s.init_state_machine, nd, p)
        s1 == [s EXCEPT !.init_state_machine = r.sm]
    IN  IF r.res = "Err"
        THEN [self |-> s1, res |-> ErrRes("Init", "Err"), produced |-> r.produced,
              delivered |-> <<>>]
        ELSE Delivered(perform_transition(update_composite_message_queue(s1),
                                          nd, r.produced), <<>>)

\* wants_to_proceed: `wants` is what each sub-machine answers.
wants_to_proceed(s, wants) ==
    IF is_none(s.refresh_state_machine) THEN wants.init ELSE wants.refresh

proceed(s, nd, p) ==
    IF is_none(s.refresh_state_machine)
    THEN LET r == sub_proceed(s.init_state_machine, nd, p)
             s1 == [s EXCEPT !.init_state_machine = r.sm]
         IN  IF r.res = "Err"
             THEN [self |-> s1, res |-> ErrRes("Init", "Err"), produced |-> r.produced,
                   delivered |-> <<>>]
             ELSE Delivered(perform_transition(update_composite_message_queue(s1),
                                               nd, r.produced), <<>>)
    ELSE LET r == sub_proceed(unwrap(s.refresh_state_machine), nd, p)
             s1 == [s EXCEPT !.refresh_state_machine = Some(r.sm)]
         IN  IF r.res = "Err"
             THEN [self |-> s1, res |-> ErrRes("Refresh", "Err"), produced |-> r.produced,
                   delivered |-> <<>>]
             ELSE Delivered(perform_transition(update_composite_message_queue(s1),
                                               nd, r.produced), <<>>)

\* A refresh machine that is absent counted as finished.
is_finished_default_true(s) ==
    sub_is_finished(s.init_state_machine)
        /\ (IF is_none(s.refresh_state_machine) THEN TRUE
            ELSE sub_is_finished(unwrap(s.refresh_state_machine)))

is_finished(s) ==
    sub_is_finished(s.init_state_machine)
        /\ (IF is_none(s.refresh_state_machine) THEN FALSE
            ELSE sub_is_finished(unwrap(s.refresh_state_machine)))

pick_output_unguarded(s, nd) ==
    IF is_some(s.refresh_state_machine)
    THEN LET r == sub_pick_output(unwrap(s.refresh_state_machine), nd)
         IN  [self |-> [s EXCEPT !.refresh_state_machine = Some(r.sm)],
              out |-> IF r.out = "Some(Err)" THEN "Some(Err(Refresh))" ELSE r.out]
    ELSE [self |-> s, out |-> "None"]

pick_output(s, nd) ==
    IF is_finished(s)
    THEN LET r == sub_pick_output(unwrap(s.refresh_state_machine), nd)
         IN  [self |-> [s EXCEPT !.refresh_state_machine = Some(r.sm)],
              out |-> IF r.out = "Some(Err)" THEN "Some(Err(Refresh))" ELSE r.out]
    ELSE [self |-> s, out |-> "None"]

\* The number of parties of the running phase.
parties_of_phase(s) ==
    IF is_none(s.refresh_state_machine) THEN s.n_parties - 1 ELSE s.n_parties

parties(s) == s.n_parties

party_ind(s) == s.idx

-----------------------------------------------------------------------------
(* Construction: ShareAddition::new and ShareRemoval::new.  QuorumApproval *)
(* starts unfinished in round 0 and may emit at once (the initiator's      *)
(* request).                                                               *)

ShareAddition_new(idx, n_parties, threshold, is_new_party, emit) ==
    update_composite_message_queue(
        [ kind |-> "ShareAddition",
          idx |-> idx,
          n_parties |-> n_parties,
          signing_share_option |-> IF is_new_party THEN None ELSE Some("signing_share"),
          sub_share_option |-> IF is_new_party THEN None ELSE Some("sub_share"),
          local_key_option |-> IF is_new_party THEN None ELSE Some("local_key"),
          threshold |-> threshold,
          message_queue |-> <<>>,
          init_state_machine |-> NewSubMachine("init", idx, InitTotalRounds, emit, 0),
          refresh_state_machine |-> None ])

ShareRemoval_new(idx, n_parties, threshold, emit) ==
    update_composite_message_queue(
        [ kind |-> "ShareRemoval",
          idx |-> idx,
          n_parties |-> n_parties,
          signing_share_option |-> Some("signing_share"),
          sub_share_option |-> Some("sub_share"),
          local_key_option |-> Some("local_key"),
          threshold |-> threshold,
          message_queue |-> <<>>,
          init_state_machine |-> NewSubMachine("init", idx, InitTotalRounds, emit, 0),
          refresh_state_machine |-> None,
          out_of_order_buffer |-> <<>> ])

-----------------------------------------------------------------------------
(* The orchestrator driven by its host.                                    *)

Thresholds == {2, 3}

NParties == {4}

Indices == {1, 2}

\* Incoming messages: a broadcast of party 1 and a P2P message of party 2 to
\* this party, in either phase's tag.
Msgs(s) ==
    { [ sender |-> i,
        receiver |-> IF i = 1 THEN None ELSE Some(s.idx),
        body |-> [tag |-> t, inner |-> 10 * i] ] :
      i \in {1, 2}, t \in {"Init", "Refresh"} }

\* What a call on a sub-machine does: it emits `emit` messages and fails, or
\* succeeds and possibly moves to its next round.
NDSub ==
    [res : {"Err"}, emit : 0..MaxEmit, adv : {FALSE}]
        \cup [res : {"Ok"}, emit : 0..MaxEmit, adv : BOOLEAN]

\* What AugmentedKeyRefresh::new does past its threshold check: the
\* reconstruction fails, the engine's constructor fails, or it succeeds and
\* the engine emits `new_emit` messages at once.
NDNew ==
    {[new |-> "Core", new_emit |-> 0], [new |-> "StateMachine", new_emit |-> 0]}
        \cup [new : {"Ok"}, new_emit : 0..MaxEmit]

\* Whether augment_output succeeds when the output is picked.
NDPick == [res : {"Ok", "Err"}]

ND == {a @@ b : a \in NDSub, b \in NDNew}

\* The choices that matter in a call on state s: those about
\* AugmentedKeyRefresh::new only when the call can reach the transition, and
\* no more than MaxProduced messages are produced in a run.
TransitionDue(s, a) ==
    /\ is_none(s.refresh_state_machine)
    /\ ~s.init_state_machine.gone
    /\ \/ s.init_state_machine.round = s.init_state_machine.total
       \/ a.res = "Ok" /\ a.adv
            /\ s.init_state_machine.round + 1 = s.init_state_machine.total

NDFor(s, p) ==
    { a @@ b : a \in {x \in NDSub : p + x.emit <= MaxProduced},
               b \in {y \in NDNew : p + y.new_emit <= MaxProduced} }

Relevant(s, nd, p) ==
    /\ p + nd.emit + nd.new_emit <= MaxProduced
    /\ TransitionDue(s, nd) \/ (nd.new = "Ok" /\ nd.new_emit = 0)

Ret(op, tag, res, out) == [op |-> op, tag |-> tag, res |-> res, out |-> out]

KRIdle == [pc |-> "idle"]

RunIdle == [pc |-> "idle"]

CallIdle == [op |-> "idle"]

OrchInit ==
    /\ \E idx \in Indices, n \in NParties, t \in Thresholds, e \in 0..MaxEmit :
          \/ \E is_new \in BOOLEAN : self = ShareAddition_new(idx, n, t, is_new, e)
          \/ self = ShareRemoval_new(idx, n, t, e)
    /\ produced = Len(self.message_queue)
    /\ ret = Ret("new", "-", OkRes, "-")
    /\ sent = <<>>
    /\ picked_ok = 0

Init == OrchInit /\ kr = KRIdle /\ run = RunIdle /\ call = CallIdle

HandleIncoming ==
    /\ \E msg \in Msgs(self), nd \in NDFor(self, produced) :
          LET r == handle_incoming(self, msg, nd, produced)
          IN  /\ Relevant(self, nd, produced)
              /\ self' = r.self
              /\ produced' = r.produced
              /\ ret' = Ret("handle_incoming", msg.body.tag, r.res, "-")
    /\ UNCHANGED <<sent, picked_ok, kr, run, call>>

Proceed ==
    /\ \E nd \in NDFor(self, produced) :
          LET r == proceed(self, nd, produced)
          IN  /\ Relevant(self, nd, produced)
              /\ self' = r.self
              /\ produced' = r.produced
              /\ ret' = Ret("proceed", "-", r.res, "-")
    /\ UNCHANGED <<sent, picked_ok, kr, run, call>>

PickOutput ==
    /\ \E nd \in NDPick :
          LET r == pick_output(self, nd)
          IN  /\ self' = r.self
              /\ ret' = Ret("pick_output", "-", OkRes, r.out)
              /\ picked_ok' = IF r.out = "Some(Ok)" THEN Min(picked_ok + 1, MaxCount) ELSE picked_ok
    /\ UNCHANGED <<sent, produced, kr, run, call>>

\* The host takes the outgoing messages through message_queue().
TakeMessages ==
    /\ self.message_queue # <<>>
    /\ sent' = sent \o self.message_queue
    /\ self' = [self EXCEPT !.message_queue = <<>>]
    /\ UNCHANGED <<ret, produced, picked_ok, kr, run, call>>

Next == HandleIncoming \/ Proceed \/ PickOutput \/ TakeMessages

Spec == Init /\ [][Next]_vars

-----------------------------------------------------------------------------
(* The claims about the orchestrator.                                      *)

RefreshActive == is_some(self.refresh_state_machine)

Rejected(r) == r.res = ErrRes("OutOfOrderMessage", "-")

\* C1: handle_incoming of an Init-tagged message while the refresh
\* sub-machine is active, and of a Refresh-tagged message while it is not,
\* returns OutOfOrderMessage; a message whose tag matches the phase is handed,
\* with the same sender and receiver, to exactly that phase's sub-machine.
C1_CrossPhasePolicy ==
    /\ \A msg \in Msgs(self), nd \in ND :
          LET r == handle_incoming(self, msg, nd, produced)
              tag == msg.body.tag
              fwd == [sender |-> msg.sender, receiver |-> msg.receiver,
                      body |-> msg.body.inner]
          IN  /\ (tag = "Init" /\ RefreshActive) => Rejected(r)
              /\ (tag = "Refresh" /\ ~RefreshActive) => Rejected(r)
              /\ (tag = "Init" /\ ~RefreshActive) =>
                     ~Rejected(r) /\ r.delivered = <<[to |-> "init", msg |-> fwd]>>
              /\ (tag = "Refresh" /\ RefreshActive) =>
                     ~Rejected(r) /\ r.delivered = <<[to |-> "refresh", msg |-> fwd]>>
    /\ (ret.op = "handle_incoming" /\ ret.res.err = "OutOfOrderMessage") =>
          (ret.tag = "Init" <=> RefreshActive)

C1_Witness ==
    /\ ret.op = "handle_incoming" /\ ret.tag = "Init"
    /\ ret.res.err = "OutOfOrderMessage"
    /\ RefreshActive

\* C2: is_finished() is true iff the init sub-machine is finished and the
\* refresh sub-machine has been instantiated and is finished; it is false
\* whenever the refresh sub-machine has not been instantiated.
C2_FinishedIffBoth ==
    /\ is_finished(self) <=>
          /\ self.init_state_machine.round = self.init_state_machine.total
          /\ RefreshActive
          /\ self.refresh_state_machine[1].round = self.refresh_state_machine[1].total
          /\ ~self.refresh_state_machine[1].gone
    /\ ~RefreshActive => ~is_finished(self)

C2_Witness ==
    /\ is_finished(self)
    /\ ret.op \in {"handle_incoming", "proceed"}

AfterOkCall ==
    \/ ret.op = "new"
    \/ ret.op \in {"handle_incoming", "proceed"} /\ ret.res = OkRes

C4_TransitionExactlyWhenInitFinished ==
    AfterOkCall => (RefreshActive <=> sub_is_finished(self.init_state_machine))

C4_Witness ==
    /\ ret.op \in {"handle_incoming", "proceed"} /\ ret.res = OkRes
    /\ RefreshActive
    /\ self.refresh_state_machine[1].round = 0

\* C5: the messages ever appended to the composite queue are in the order
\* the sub-machines produced them, each once and none left out, each tagged
\* with the phase of its producer, every Init-tagged one before every
\* Refresh-tagged one.
Appended == sent \o self.message_queue

Pending ==
    MapQueue(self.init_state_machine.message_queue, "Init")
        \o (IF RefreshActive
            THEN MapQueue(self.refresh_state_machine[1].message_queue, "Refresh")
            ELSE <<>>)

C5_OrderPreserved ==
    LET all == Appended \o Pending
    IN  /\ Len(all) = produced
        /\ \A k \in 1..Len(all) : all[k].body.inner.n = k
        /\ \A k \in 1..Len(Appended) :
              Appended[k].body.tag = "Init" <=> Appended[k].body.inner.by = "init"
        /\ \A i, j \in 1..Len(Appended) :
              (i < j) => ~(Appended[i].body.tag = "Refresh" /\ Appended[j].body.tag = "Init")

C5_Witness ==
    /\ Len(sent) >= 1
    /\ \E i, j \in 1..Len(Appended) :
          /\ i < j
          /\ Appended[i].body.tag = "Init"
          /\ Appended[j].body.tag = "Refresh"

-----------------------------------------------------------------------------
(* AugmentedKeyRefresh::new on arguments drawn from samples of u16.        *)

U16Max == 65535

NewThresholds == 0..MaxNewThreshold \cup {U16Max \div 2, U16Max \div 2 + 1, U16Max}

NewParties == 0..MaxNewParties \cup {U16Max - 1, U16Max}

Presence(x) == {None, Some(x)}

NewArgs ==
    [ signing_share_option : Presence("signing_share"),
      sub_share_option : Presence("sub_share"),
      local_key_option : Presence("local_key"),
      new_threshold : NewThresholds,
      n_parties : NewParties ]

\* The orchestrator of the specifications that are not about it.
SelfIdle ==
    /\ self = ShareRemoval_new(1, 4, 2, 0)
    /\ produced = 0
    /\ ret = Ret("new", "-", OkRes, "-")
    /\ sent = <<>>
    /\ picked_ok = 0

InitNew ==
    /\ SelfIdle
    /\ run = RunIdle
    /\ call = CallIdle
    /\ \E a \in NewArgs : kr = [pc |-> "args", args |-> a, res |-> "-", effects |-> <<>>]

KRNew ==
    /\ kr.pc = "args"
    /\ \E nd \in NDNew :
          LET r == AugmentedKeyRefresh_new(kr.args, nd)
          IN  kr' = [kr EXCEPT !.pc = "returned", !.res = r.res, !.effects = r.effects]
    /\ UNCHANGED <<self, ret, sent, produced, picked_ok, run, call>>

NextNew == KRNew

SpecNew == InitNew /\ [][NextNew]_vars

\* C7: AugmentedKeyRefresh::new returns BadFSDKRThreshold iff new_threshold
\* exceeds floor(n_parties / 2), and then it has neither reconstructed the
\* secret share nor constructed the engine.
C7_BadFSDKRThreshold ==
    kr.pc = "returned" =>
        LET t == kr.args.new_threshold
            n == kr.args.n_parties
        IN  /\ (kr.res = "BadFSDKRThreshold") <=> (2 * t > n)
            /\ (kr.res = "BadFSDKRThreshold") => kr.effects = <<>>
            /\ (kr.res # "BadFSDKRThreshold" /\ is_some(kr.args.local_key_option)
                    /\ is_some(kr.args.signing_share_option)
                    /\ is_some(kr.args.sub_share_option)) =>
                   kr.effects # <<>> /\ kr.effects[1] = "reconstruct"

C7_Witness ==
    /\ kr.pc = "returned"
    /\ kr.res = "BadFSDKRThreshold"
    /\ kr.args.new_threshold = 3 /\ kr.args.n_parties = 5
    /\ is_some(kr.args.local_key_option)
    /\ is_some(kr.args.signing_share_option)
    /\ is_some(kr.args.sub_share_option)

-----------------------------------------------------------------------------
(* AugmentedKeyRefresh as a wrapper of the FS-DKR engine: the validation   *)
(* of incoming messages.                                                   *)

\* wamu_core::utils::prefix_message_bytes, not part of the sources at hand.
prefix_message_bytes(h) == <<"prefix", h>>

\* The SHA-256 commitment as the tuple of what is chained into the hasher.
parameter_hash(sender, out_msg) == <<sender, out_msg>>

\* The verification proper, past the dispatch on the tags: a signature's
\* bytes stand for the pair of its signer and the bytes signed.
verify_signature(verifying_key, msg, signature) ==
    IF signature.by = verifying_key /\ signature.over = msg
    THEN "Ok"
    ELSE "InvalidSignature"

\* An identity provider: its key and the tags of what it produces.
ECDSAProvider(k) ==
    [key |-> k, algo |-> "ECDSA", curve |-> "Secp256k1", enc |-> "SEC1",
     hash |-> "SHA256", sig_enc |-> "DER"]

EdDSAProvider(k) ==
    [key |-> k, algo |-> "EdDSA", curve |-> "Curve25519", enc |-> "SEC1",
     hash |-> "SHA256", sig_enc |-> "DER"]

Providers == {ECDSAProvider("k1"), ECDSAProvider("k2"), EdDSAProvider("k3")}

\* IdentityProvider::verifying_key
verifying_key(identity_provider) ==
    [key |-> identity_provider.key, algo |-> identity_provider.algo,
     curve |-> identity_provider.curve, enc |-> identity_provider.enc]

\* IdentityProvider::sign: the signature bytes stand for signer and message.
sign(identity_provider, msg) ==
    [sig |-> [by |-> identity_provider.key, over |-> msg],
     algo |-> identity_provider.algo, curve |-> identity_provider.curve,
     hash |-> identity_provider.hash, enc |-> identity_provider.sig_enc]

\* Key bytes that do not parse as a SEC1 point.
MalformedKey == "not-a-point"

ProviderKeys == {verifying_key(i) : i \in Providers}

VerifyingKeys ==
    ProviderKeys \cup
    {[key |-> MalformedKey, algo |-> "ECDSA", curve |-> "Secp256k1", enc |-> "SEC1"],
     [key |-> "k1", algo |-> "ECDSA", curve |-> "Secp256k1", enc |-> "EIP55"],
     [key |-> "k1", algo |-> "ECDSA", curve |-> "Curve25519", enc |-> "SEC1"]}

\* Signature bytes that do not parse as a DER signature.
MalformedSignature == [by |-> "-", over |-> "not-a-signature"]

\* The parsing and verification of the supported arm: the signature is
\* parsed before the key's parsing error is looked at.
verify_ecdsa_secp256k1_sha256(vk, msg, signature) ==
    IF signature.sig = MalformedSignature THEN "InvalidSignature"
    ELSE IF vk.key = MalformedKey THEN "InvalidVerifyingKey"
    ELSE verify_signature(vk.key, msg, signature.sig)

\* The hash function matched before the signature encoding.
crypto_verify_signature_hash_first(vk, msg, signature) ==
    IF vk.algo # signature.algo THEN "SignatureAlgorithmMismatch"
    ELSE IF vk.curve # signature.curve THEN "EllipticCurveMismatch"
    ELSE IF vk.algo # "ECDSA" THEN "UnsupportedSignatureAlgorithm"
    ELSE IF vk.curve # "Secp256k1" THEN "UnsupportedEllipticCurve"
    ELSE IF vk.enc # "SEC1" THEN "UnsupportedKeyEncoding"
    ELSE IF signature.hash # "SHA256" THEN "UnsupportedHashFunction"
    ELSE IF signature.enc # "DER" THEN "UnsupportedSignatureEncoding"
    ELSE verify_ecdsa_secp256k1_sha256(vk, msg, signature)

\* crypto::verify_signature with its dispatch on the tags.
crypto_verify_signature(vk, msg, signature) ==
    IF vk.algo # signature.algo THEN "SignatureAlgorithmMismatch"
    ELSE IF vk.curve # signature.curve THEN "EllipticCurveMismatch"
    ELSE IF vk.algo # "ECDSA" THEN "UnsupportedSignatureAlgorithm"
    ELSE IF vk.curve # "Secp256k1" THEN "UnsupportedEllipticCurve"
    ELSE IF vk.enc # "SEC1" THEN "UnsupportedKeyEncoding"
    ELSE IF signature.enc # "DER" THEN "UnsupportedSignatureEncoding"
    ELSE IF signature.hash # "SHA256" THEN "UnsupportedHashFunction"
    ELSE verify_ecdsa_secp256k1_sha256(vk, msg, signature)

KRRes(e, i, bad) == [err |-> e, inner |-> i, bad_actors |-> bad]

KROk == KRRes("Ok", "-", <<>>)

\* The signature verified before the signer is looked up.
check_params_signature_first(k, msg, expected) ==
    IF expected
    THEN IF is_some(msg.body.base.out_msg) /\ is_some(msg.body.extra)
         THEN LET out_msg == unwrap(msg.body.base.out_msg)
                  params == unwrap(msg.body.extra)
                  v == crypto_verify_signature(params.verifying_key,
                           prefix_message_bytes(parameter_hash(msg.sender, out_msg)),
                           params.verifying_signature)
              IN  IF v # "Ok"
                  THEN KRRes("Core", v, <<>>)
                  ELSE IF params.verifying_key \notin k.verified_parties
                  THEN KRRes("Core", "UnauthorizedParty", <<>>)
                  ELSE KROk
         ELSE KRRes("MissingParams", "-", <<msg.sender>>)
    ELSE KROk

\* One arm of the match on the round: `expected` says whether the sender's
\* class is the one that attests this round.
check_params(k, msg, expected) ==
    IF expected
    THEN IF is_some(msg.body.base.out_msg) /\ is_some(msg.body.extra)
         THEN LET out_msg == unwrap(msg.body.base.out_msg)
                  params == unwrap(msg.body.extra)
                  v == crypto_verify_signature(params.verifying_key,
                           prefix_message_bytes(parameter_hash(msg.sender, out_msg)),
                           params.verifying_signature)
              IN  IF params.verifying_key \notin k.verified_parties
                  THEN KRRes("Core", "UnauthorizedParty", <<>>)
                  ELSE IF v # "Ok"
                  THEN KRRes("Core", v, <<>>)
                  ELSE KROk
         ELSE KRRes("MissingParams", "-", <<msg.sender>>)
    ELSE KROk

\* Attestations that arrive where none is expected are refused.
pre_handle_incoming_strict(k, msg) ==
    LET expected == IF msg.body.base.round = 1
                    THEN msg.sender \notin k.existing_parties
                    ELSE msg.sender \in k.existing_parties
    IN  IF ~expected /\ is_some(msg.body.extra)
        THEN KRRes("Core", "UnauthorizedParty", <<>>)
        ELSE check_params(k, msg, expected)

\* A missing attestation is let through.
pre_handle_incoming_lenient(k, msg) ==
    LET expected == IF msg.body.base.round = 1
                    THEN msg.sender \notin k.existing_parties
                    ELSE msg.sender \in k.existing_parties
        r == check_params(k, msg, expected)
    IN  IF r.err = "MissingParams" THEN KROk ELSE r

pre_handle_incoming(k, msg) ==
    IF msg.body.base.round = 1
    THEN check_params(k, msg, msg.sender \notin k.existing_parties)
    ELSE check_params(k, msg, msg.sender \in k.existing_parties)

\* The generic wrapper's handle_incoming (aug_state_machine.rs is not part of
\* the sources at hand): validate, then hand the base message to the engine.
aug_handle_incoming(k, msg, nd) ==
    LET r == pre_handle_incoming(k, msg)
    IN  IF r.err # "Ok"
        THEN [res |-> r, delivered |-> <<>>]
        ELSE [res |-> IF nd.res = "Ok" THEN KROk
                      ELSE KRRes("StateMachine", "-", <<>>),
              delivered |-> <<[sender |-> msg.sender, receiver |-> msg.receiver,
                               body |-> msg.body.base]>>]

\* The attestation of a round body by the sender's identity provider.
attestation(k, sender, out_msg) ==
    [verifying_key |-> verifying_key(k.identity_provider),
     verifying_signature |->
         sign(k.identity_provider, prefix_message_bytes(parameter_hash(sender, out_msg)))]

\* The two classes of parties taken for each other.
augment_outgoing_message_swapped(k, sender, msg_body) ==
    LET it == msg_body.out_msg
        extra == IF is_some(it) THEN Some(attestation(k, sender, unwrap(it))) ELSE None
    IN  IF msg_body.round = 1
        THEN IF sender \in k.existing_parties THEN extra ELSE None
        ELSE IF sender \notin k.existing_parties THEN extra ELSE None

augment_outgoing_message(k, sender, msg_body) ==
    LET it == msg_body.out_msg
        extra == IF is_some(it) THEN Some(attestation(k, sender, unwrap(it))) ELSE None
    IN  IF msg_body.round = 1
        THEN IF sender \notin k.existing_parties THEN extra ELSE None
        ELSE IF sender \in k.existing_parties THEN extra ELSE None

KRSenders == 1..3

\* The identity provider of each party of the refresh, and one of a party
\* that is not verified.
KRProvider(i) ==
    IF i = 1 THEN ECDSAProvider("k1")
    ELSE IF i = 2 THEN ECDSAProvider("k2")
    ELSE EdDSAProvider("k3")

Outsider == ECDSAProvider("k9")

KRProviders == {KRProvider(i) : i \in KRSenders} \cup {Outsider}

KRVerifiedParties == {verifying_key(KRProvider(i)) : i \in KRSenders}

KROutMsgs == {"p1", "p2"}

\* Attestations: the key of any provider with a signature, made by that
\* provider or by party 1, over the commitment to "p1" under any sender.
IdentityAuthParams ==
    UNION {[verifying_key : {verifying_key(a)},
            verifying_signature :
                {sign(b, prefix_message_bytes(parameter_hash(j, "p1"))) :
                    b \in {a, KRProvider(1)}, j \in KRSenders}] :
           a \in KRProviders}

KRMsgs ==
    [ sender : KRSenders,
      receiver : {None},
      body : [ base : [round : {1, 2}, out_msg : {None} \cup {Some(p) : p \in KROutMsgs}],
               extra : {None} \cup {Some(x) : x \in IdentityAuthParams} ] ]

\* Whether the sender's class attests the round of the message.
AttestationRequired(k, msg) ==
    \/ msg.body.base.round = 1 /\ msg.sender \notin k.existing_parties
    \/ msg.body.base.round = 2 /\ msg.sender \in k.existing_parties

KRNoCall == [msg |-> None, res |-> KROk, delivered |-> <<>>]

InitKR ==
    /\ SelfIdle
    /\ run = RunIdle
    /\ call = CallIdle
    /\ \E e \in {{1}, {1, 2}} :
          kr = [pc |-> "running", existing_parties |-> e,
                verified_parties |-> KRVerifiedParties,
                last |-> KRNoCall]

\* The validation reads no state that a call changes: one call from each
\* configuration stands for every call of a run.
KRHandleIncoming ==
    /\ kr.pc = "running"
    /\ is_none(kr.last.msg)
    /\ \E msg \in KRMsgs, nd \in NDSub :
          LET r == aug_handle_incoming(kr, msg, nd)
          IN  kr' = [kr EXCEPT !.last = [msg |-> Some(msg), res |-> r.res,
                                         delivered |-> r.delivered]]
    /\ UNCHANGED <<self, ret, sent, produced, picked_ok, run, call>>

NextKR == KRHandleIncoming

SpecKR == InitKR /\ [][NextKR]_vars

LastMsg == unwrap(kr.last.msg)

\* C8: a message whose sender's class attests its round and that lacks the
\* attestation, or the round body it attests, is answered by MissingParams
\* with bad_actors = [msg.sender] and does not reach the engine.
C8_MissingParams ==
    kr.pc = "running" =>
        /\ \A msg \in KRMsgs, nd \in NDSub :
              (AttestationRequired(kr, msg)
                  /\ (is_none(msg.body.extra) \/ is_none(msg.body.base.out_msg))) =>
                 /\ pre_handle_incoming(kr, msg) = KRRes("MissingParams", "-", <<msg.sender>>)
                 /\ aug_handle_incoming(kr, msg, nd).res
                        = KRRes("MissingParams", "-", <<msg.sender>>)
                 /\ aug_handle_incoming(kr, msg, nd).delivered = <<>>
        /\ (is_some(kr.last.msg) /\ AttestationRequired(kr, LastMsg)
               /\ (is_none(LastMsg.body.extra) \/ is_none(LastMsg.body.base.out_msg))) =>
              /\ kr.last.res = KRRes("MissingParams", "-", <<LastMsg.sender>>)
              /\ kr.last.delivered = <<>>

C8_Witness ==
    /\ kr.pc = "running"
    /\ is_some(kr.last.msg)
    /\ LastMsg.body.base.round = 2
    /\ LastMsg.sender \in kr.existing_parties
    /\ is_none(LastMsg.body.extra)
    /\ is_some(LastMsg.body.base.out_msg)
    /\ kr.last.res.err = "MissingParams"

\* Whether the message carries an attestation its sender's class does not
\* give in this round.
ForbiddenAttestation(k, msg) ==
    ~AttestationRequired(k, msg) /\ is_some(msg.body.extra)

\* C9 as stated: a message with an attestation where none is expected is
\* rejected.
C9_ForbiddenRejected ==
    (kr.pc = "running" /\ is_some(kr.last.msg) /\ ForbiddenAttestation(kr, LastMsg)) =>
        kr.last.res.err \notin {"Ok", "StateMachine"}

\* C9: a Round 1 message from an existing party or a Round 2 message from a
\* new party passes pre_handle_incoming whether or not it carries an
\* attestation and whatever the attestation holds; the base message goes to
\* the engine.
C9_ForbiddenIgnored ==
    kr.pc = "running" =>
        /\ \A msg \in KRMsgs, nd \in NDSub :
              ~AttestationRequired(kr, msg) =>
                 /\ pre_handle_incoming(kr, msg) = KROk
                 /\ Len(aug_handle_incoming(kr, msg, nd).delivered) = 1
                 /\ aug_handle_incoming(kr, msg, nd).delivered[1].body = msg.body.base
        /\ (is_some(kr.last.msg) /\ ForbiddenAttestation(kr, LastMsg)) =>
              /\ kr.last.res.err \in {"Ok", "StateMachine"}
              /\ Len(kr.last.delivered) = 1

C9_Witness ==
    /\ kr.pc = "running"
    /\ is_some(kr.last.msg)
    /\ ForbiddenAttestation(kr, LastMsg)
    /\ LastMsg.body.base.round = 1
    /\ unwrap(LastMsg.body.extra).verifying_key \notin kr.verified_parties
    /\ kr.last.res = KROk
    /\ Len(kr.last.delivered) = 1

-----------------------------------------------------------------------------
(* Share splitting and reconstruction, and the output of a key refresh.    *)

\* The order of the curve, scaled down to a small prime.
MODULUS == 5

Field == 0..(MODULUS - 1)

add_mod(a, b) == (a + b) % MODULUS

sub_mod(a, b) == (a + MODULUS - b) % MODULUS

mul_mod(a, b) == (a * b) % MODULUS

\* Residue::invert: the pair of a value and of whether it is an inverse; the
\* value for zero, which has none, is zero.
invert(a) ==
    IF \E i \in Field : mul_mod(a, i) = 1
    THEN <<CHOOSE i \in Field : mul_mod(a, i) = 1, TRUE>>
    ELSE <<0, FALSE>>

SubShare_new(x, y) == [x |-> x, y |-> y]

\* The intercept computed from the x of the second point.
SubShareInterpolator_new_intercept_x2(point_a, point_b) ==
    LET dy == sub_mod(point_a.y, point_b.y)
        dx == sub_mod(point_a.x, point_b.x)
        gradient == mul_mod(dy, invert(dx)[1])
    IN  [gradient |-> gradient,
         intercept |-> sub_mod(point_a.y, mul_mod(gradient, point_b.x))]

\* The inverse is used without a look at whether it exists.
SubShareInterpolator_new(point_a, point_b) ==
    LET x_1 == point_a.x
        y_1 == point_a.y
        x_2 == point_b.x
        y_2 == point_b.y
        dy == sub_mod(y_1, y_2)
        dx == sub_mod(x_1, x_2)
        gradient == mul_mod(dy, invert(dx)[1])
        intercept_mod == sub_mod(y_1, mul_mod(gradient, x_1))
    IN  [gradient |-> gradient, intercept |-> intercept_mod]

secret(interpolator) == interpolator.intercept

\* The intercept left out.
sub_share_no_intercept(interpolator, idx) ==
    [x |-> idx, y |-> mul_mod(interpolator.gradient, idx)]

sub_share(interpolator, idx) ==
    [x |-> idx, y |-> add_mod(mul_mod(interpolator.gradient, idx), interpolator.intercept)]

\* An identity provider is its deterministic signing function, from the
\* bytes signed to the pair (r, s).
sign_message_share(identity_provider, message_share) == identity_provider[message_share]

\* `signing_share` is the value SigningShare::new() draws.
split(secret_share, identity_provider, signing_share) ==
    LET rs == sign_message_share(identity_provider, signing_share)
        sub_share_a == SubShare_new(rs[1], rs[2])
        sub_share_interpolator ==
            SubShareInterpolator_new(SubShare_new(0, secret_share), sub_share_a)
        sub_share_b == sub_share(sub_share_interpolator, 1)
    IN  <<signing_share, sub_share_b>>

\* The line taken through the provider's point and the origin.
reconstruct_through_origin(signing_share, sub_share_b, identity_provider) ==
    LET rs == sign_message_share(identity_provider, signing_share)
    IN  secret(SubShareInterpolator_new(SubShare_new(rs[1], rs[2]), SubShare_new(0, 0)))

reconstruct(signing_share, sub_share_b, identity_provider) ==
    LET rs == sign_message_share(identity_provider, signing_share)
        sub_share_a == SubShare_new(rs[1], rs[2])
        sub_share_interpolator == SubShareInterpolator_new(sub_share_a, sub_share_b)
    IN  secret(sub_share_interpolator)

\* asm::split_key_output (aug_state_machine.rs is not part of the sources at
\* hand): split the secret share of the key and clear it in the key.
split_key_output(identity_provider, output, signing_share) ==
    [ base |-> [output EXCEPT !.x_i = 0],
      extra |-> Some(split(output.x_i, identity_provider, signing_share)) ]

augment_output(k, output, signing_share) ==
    split_key_output(k.identity_provider, output, signing_share)

\* What the FS-DKR engine hands out when it completes: a key for the
\* threshold and the party count it was constructed with, under the public
\* key of the group, with a fresh secret share.
KeyRefresh_output(k, x_i) ==
    [t |-> k.args.new_threshold, n |-> k.args.n_parties, x_i |-> x_i,
     public_key |-> k.pub_key_init]

\* (threshold_init, n_parties_init, threshold_new, n_parties_new) of the
\* refreshes that the tests run.
RefreshCases ==
    { <<1, 2, 1, 2>>, <<1, 4, 2, 4>>, <<1, 2, 1, 3>>, <<1, 2, 2, 4>>,
      <<1, 3, 1, 2>>, <<2, 4, 1, 3>>, <<2, 5, 2, 4>>, <<2, 4, 2, 5>> }

\* The arguments of an existing party, which brings its key and shares, and
\* those of a party that joins, which brings none.
OutArgs(c, joins) ==
    [ signing_share_option |-> IF joins THEN None ELSE Some("signing_share"),
      sub_share_option |-> IF joins THEN None ELSE Some("sub_share"),
      local_key_option |-> IF joins THEN None ELSE Some("local_key"),
      new_threshold |-> c[3],
      n_parties |-> c[4] ]

\* Signing functions whose (r, s) are those of ECDSA signatures: both are in
\* 1..MODULUS-1.
IdentityProviders ==
    { [m \in Field |-> <<1 + ((m + a) % (MODULUS - 1)), 1 + ((m * m + b) % (MODULUS - 1))>>] :
          a, b \in 0..(MODULUS - 2) }

InitOut ==
    /\ SelfIdle
    /\ run = RunIdle
    /\ call = CallIdle
    /\ \E c \in RefreshCases, joins \in BOOLEAN, idp \in IdentityProviders :
          /\ joins => c[4] > c[2]
          /\ kr = [pc |-> "args", args |-> OutArgs(c, joins), res |-> "-",
                   effects |-> <<>>, identity_provider |-> idp,
                   pub_key_init |-> "pub_key_init", x_i |-> 0, out |-> None]

\* The engine runs to its end and holds a key with a new secret share.
KRComplete ==
    /\ kr.pc = "returned"
    /\ kr.res = "Ok"
    /\ \E x \in Field : kr' = [kr EXCEPT !.pc = "finished", !.x_i = x]
    /\ UNCHANGED <<self, ret, sent, produced, picked_ok, run, call>>

\* pick_output of the wrapper: the engine's output, augmented.
KRPickOutput ==
    /\ kr.pc = "finished"
    /\ \E signing_share \in Field :
          kr' = [kr EXCEPT !.pc = "picked",
                           !.out = Some(augment_output(kr, KeyRefresh_output(kr, kr.x_i),
                                                       signing_share))]
    /\ UNCHANGED <<self, ret, sent, produced, picked_ok, run, call>>

NextOut == KRNew \/ KRComplete \/ KRPickOutput

SpecOut == InitOut /\ [][NextOut]_vars

Out == unwrap(kr.out)

\* C10: the key a completed refresh returns has the new threshold and party
\* count, a zero secret share and the public key of before, and the returned
\* (signing_share, sub_share) reconstructs to the party's new secret share.
C10_RefreshOutput ==
    kr.pc = "picked" =>
        /\ Out.base.t = kr.args.new_threshold
        /\ Out.base.n = kr.args.n_parties
        /\ Out.base.x_i = 0
        /\ Out.base.public_key = kr.pub_key_init
        /\ is_some(Out.extra)
        /\ reconstruct(unwrap(Out.extra)[1], unwrap(Out.extra)[2], kr.identity_provider)
               = kr.x_i

-----------------------------------------------------------------------------
(* A run of share removal: RunParties honest parties, one of them the      *)
(* initiator, each an orchestrator driven by its host, over channels that  *)
(* keep the order of one sender's messages to one recipient.  The host     *)
(* hands the messages of the composite queue to the network after every    *)
(* call, and drops a party whose call failed (every error is critical).    *)

initiating_party_idx == 2

Parties == 1..RunParties

Others(p) == Parties \ {p}

\* What the sub-machine of an honest run does with an incoming message.
\* Quorum approval: a verifier answers the initiator's request with its
\* challenge and approval and finishes on the initiator's response; the
\* initiator responds, and finishes, on the last verifier's answer.  Key
\* refresh: every party emits one message per round and moves on when it
\* has those of all the others.
HonestND(s, got, msg) ==
    IF msg.body.tag = "Init"
    THEN IF s.idx = initiating_party_idx
         THEN LET last == got.init + 1 = RunParties - 1
              IN  [res |-> "Ok", emit |-> IF last THEN 1 ELSE 0, adv |-> last,
                   new |-> "Ok", new_emit |-> 1]
         ELSE [res |-> "Ok", emit |-> IF got.init = 0 THEN 1 ELSE 0,
               adv |-> got.init = 1, new |-> "Ok", new_emit |-> 1]
    ELSE LET last == (got.refresh + 1) % (RunParties - 1) = 0
             more == is_some(s.refresh_state_machine)
                         /\ unwrap(s.refresh_state_machine).round + 1
                                < unwrap(s.refresh_state_machine).total
         IN  [res |-> "Ok", emit |-> IF last /\ more THEN 1 ELSE 0, adv |-> last,
              new |-> "Ok", new_emit |-> 1]

\* Who a message of party p goes to: a verifier's answer in the init phase
\* to the initiator, everything else to all the others.
Recipients(p, msg) ==
    IF msg.body.tag = "Init" /\ p # initiating_party_idx
    THEN {initiating_party_idx}
    ELSE Others(p)

RECURSIVE Flush(_, _, _)
Flush(chan, p, q) ==
    IF q = <<>> THEN chan
    ELSE Flush([c \in DOMAIN chan |->
                   IF c[1] = p /\ c[2] \in Recipients(p, Head(q))
                   THEN Append(chan[c], Head(q)) ELSE chan[c]],
               p, Tail(q))

Channels == {c \in Parties \X Parties : c[1] # c[2]}

RunStart ==
    LET party == [p \in Parties |->
                     ShareRemoval_new(p, RunParties, 1,
                                      IF p = initiating_party_idx THEN 1 ELSE 0)]
    IN  [ pc |-> "run",
          party |-> [p \in Parties |-> [party[p] EXCEPT !.message_queue = <<>>]],
          got |-> [p \in Parties |-> [init |-> 0, refresh |-> 0]],
          chan |-> Flush([c \in Channels |-> <<>>], initiating_party_idx,
                         party[initiating_party_idx].message_queue),
          err |-> [p \in Parties |-> "Ok"],
          out |-> [p \in Parties |-> 0],
          produced |-> [p \in Parties |-> Len(party[p].message_queue)] ]

InitRun ==
    /\ SelfIdle
    /\ kr = KRIdle
    /\ call = CallIdle
    /\ run = RunStart

\* Party p's host hands it the next message of party q.
RunDeliver(p, q) ==
    /\ run.pc = "run"
    /\ run.err[p] = "Ok"
    /\ run.chan[<<q, p>>] # <<>>
    /\ LET msg == Head(run.chan[<<q, p>>])
           r == handle_incoming(run.party[p], msg,
                                HonestND(run.party[p], run.got[p], msg),
                                run.produced[p])
           ok == r.res.err = "Ok"
           chan1 == [run.chan EXCEPT ![<<q, p>>] = Tail(@)]
       IN  run' = [run EXCEPT
                !.party[p] = [r.self EXCEPT !.message_queue = <<>>],
                !.chan = Flush(chan1, p, r.self.message_queue),
                !.err[p] = r.res.err,
                !.produced[p] = r.produced,
                !.got[p] = IF ~ok THEN @
                           ELSE IF msg.body.tag = "Init"
                           THEN [@ EXCEPT !.init = @ + 1]
                           ELSE [@ EXCEPT !.refresh = @ + 1]]
    /\ UNCHANGED <<self, ret, sent, produced, picked_ok, kr, call>>

\* Party p's host takes the output of a finished party.
RunPick(p) ==
    /\ run.pc = "run"
    /\ run.err[p] = "Ok"
    /\ is_finished(run.party[p])
    /\ LET r == pick_output(run.party[p], [res |-> "Ok"])
       IN  run' = [run EXCEPT !.party[p] = r.self,
                              !.out[p] = IF r.out = "Some(Ok)" THEN @ + 1 ELSE @]
    /\ UNCHANGED <<self, ret, sent, produced, picked_ok, kr, call>>

NextRun ==
    \/ \E p \in Parties, q \in Parties : p # q /\ RunDeliver(p, q)
    \/ \E p \in Parties : RunPick(p)

\* Every message handed to the network is eventually delivered, and every
\* host eventually takes the output of its finished party.
FairRun ==
    /\ \A c \in Channels : WF_vars(RunDeliver(c[2], c[1]))
    /\ \A p \in Parties : WF_vars(RunPick(p))

SpecRun == InitRun /\ [][NextRun]_vars /\ FairRun

\* C11: in an honest run with one initiator and every message delivered, no
\* call of any party returns an error, and eventually every party has
\* finished and yielded its one output.
C11_HonestRunCompletes ==
    /\ [](run.pc = "run" => \A p \in Parties : run.err[p] = "Ok")
    /\ <>(run.pc = "run" /\ \A p \in Parties : run.out[p] = 1)

-----------------------------------------------------------------------------
(* The share algebra called on its own: every call draws its arguments in  *)
(* the initial state and is applied by one step.                           *)

\* Signing functions with any (r, s) below MODULUS.
AnyIdentityProviders ==
    { [m \in Field |-> <<add_mod(m, a), add_mod(mul_mod(m, m), b)>>] : a, b \in Field }

\* The values SigningShare::new() may draw.
SigningShares == 0..MaxSigningShare

\* The point of the line y = g*x + c at x.
OnLine(g, c, x) == SubShare_new(x, add_mod(mul_mod(g, x), c))

\* current and new are the current and the new identity provider.
rotate_signing_and_sub_share(signing_share, sub_share_b, current, new, new_signing_share) ==
    LET secret_share == reconstruct(signing_share, sub_share_b, current)
    IN  split(secret_share, new, new_signing_share)

ShareCalls ==
    [op : {"round_trip"}, done : {FALSE}, res : {None},
     x : Field, idp : AnyIdentityProviders, signing_share : SigningShares]
    \cup
    [op : {"interpolate"}, done : {FALSE}, res : {None},
     g : Field, c : Field, x_1 : Field, x_2 : Field, idx : 1..(MODULUS - 1)]
    \cup
    [op : {"rotate"}, done : {FALSE}, res : {None},
     x : Field, idp : AnyIdentityProviders, new_idp : AnyIdentityProviders,
     signing_share : SigningShares, new_signing_share : SigningShares]
    \cup
    [op : {"other_provider"}, done : {FALSE}, res : {None},
     x : Field, idp : AnyIdentityProviders, other_idp : AnyIdentityProviders,
     signing_share : SigningShares]

InitShare ==
    /\ SelfIdle
    /\ kr = KRIdle
    /\ run = RunIdle
    /\ call \in ShareCalls

Done(res) == [call EXCEPT !.done = TRUE, !.res = Some(res)]

\* tests::share_splitting_and_reconstruction_works: split, then reconstruct
\* under the same provider.
CallRoundTrip ==
    /\ call.op = "round_trip" /\ ~call.done
    /\ LET sp == split(call.x, call.idp, call.signing_share)
       IN  call' = Done([signing_share |-> sp[1], sub_share_b |-> sp[2],
                         secret |-> reconstruct(sp[1], sp[2], call.idp)])
    /\ UNCHANGED <<self, ret, sent, produced, picked_ok, kr, run>>

\* An interpolator through two points of the line y = g*x + c, in both
\* orders of the points, and its sub-share at idx.
CallInterpolate ==
    /\ call.op = "interpolate" /\ ~call.done
    /\ LET a == OnLine(call.g, call.c, call.x_1)
           b == OnLine(call.g, call.c, call.x_2)
       IN  call' = Done([ab |-> SubShareInterpolator_new(a, b),
                         ba |-> SubShareInterpolator_new(b, a),
                         at_idx |-> sub_share(SubShareInterpolator_new(a, b), call.idx),
                         at_a |-> IF a.x = 0 THEN None
                                  ELSE Some(sub_share(SubShareInterpolator_new(a, b), a.x)),
                         at_b |-> IF b.x = 0 THEN None
                                  ELSE Some(sub_share(SubShareInterpolator_new(a, b), b.x))])
    /\ UNCHANGED <<self, ret, sent, produced, picked_ok, kr, run>>

\* tests::identity_rotation_works: split, rotate to the new provider,
\* reconstruct under the new provider.
CallRotate ==
    /\ call.op = "rotate" /\ ~call.done
    /\ LET sp == split(call.x, call.idp, call.signing_share)
           ro == rotate_signing_and_sub_share(sp[1], sp[2], call.idp, call.new_idp,
                                              call.new_signing_share)
       IN  call' = Done([signing_share |-> ro[1], sub_share_b |-> ro[2],
                         secret |-> reconstruct(ro[1], ro[2], call.new_idp)])
    /\ UNCHANGED <<self, ret, sent, produced, picked_ok, kr, run>>

\* Split under one provider, reconstruct under another.
CallOtherProvider ==
    /\ call.op = "other_provider" /\ ~call.done
    /\ LET sp == split(call.x, call.idp, call.signing_share)
       IN  call' = Done([signing_share |-> sp[1], sub_share_b |-> sp[2],
                         secret |-> reconstruct(sp[1], sp[2], call.other_idp)])
    /\ UNCHANGED <<self, ret, sent, produced, picked_ok, kr, run>>

NextShare == CallRoundTrip \/ CallInterpolate \/ CallRotate \/ CallOtherProvider

SpecShare == InitShare /\ [][NextShare]_vars

Res == unwrap(call.res)

\* C12: split followed by reconstruct under the same provider gives the
\* secret back, for every secret, provider and signing share.
C12_RoundTrip ==
    (call.op = "round_trip" /\ call.done) => Res.secret = call.x

\* C13: an interpolator through two points of a line with different
\* x-coordinates has the line's intercept as its secret, whichever point
\* comes first.
C13_SecretIsIntercept ==
    (call.op = "interpolate" /\ call.done /\ call.x_1 # call.x_2) =>
        /\ secret(Res.ab) = call.c
        /\ secret(Res.ba) = call.c
        /\ OnLine(call.g, call.c, 0).y = call.c

C13_Witness ==
    /\ call.op = "interpolate" /\ call.done
    /\ call.x_1 > call.x_2 /\ call.x_2 # 0
    /\ call.g # 0 /\ call.c # 0
    /\ secret(Res.ab) = call.c

\* C14: the sub-share at idx of an interpolator through two points with
\* different x-coordinates is the point of their line at idx; at the
\* x-coordinate of an input point, when not zero, it is that point.
C14_SubShareOnLine ==
    (call.op = "interpolate" /\ call.done /\ call.x_1 # call.x_2) =>
        /\ Res.at_idx = OnLine(call.g, call.c, call.idx)
        /\ Res.at_idx.y = add_mod(mul_mod(Res.ab.gradient, call.idx), Res.ab.intercept)
        /\ call.x_1 # 0 => Res.at_a = Some(OnLine(call.g, call.c, call.x_1))
        /\ call.x_2 # 0 => Res.at_b = Some(OnLine(call.g, call.c, call.x_2))

C14_Witness ==
    /\ call.op = "interpolate" /\ call.done
    /\ call.x_1 # call.x_2 /\ call.x_1 # 0 /\ call.x_2 # 0
    /\ call.idx \notin {call.x_1, call.x_2}
    /\ call.g # 0 /\ call.c # 0
    /\ Res.at_idx = OnLine(call.g, call.c, call.idx)

\* Whether a round trip meets two interpolation points of equal x: in
\* split the provider's point and (0, secret), in reconstruct the provider's
\* point and sub-share b, which is at x = 1.
EqualXInRoundTrip ==
    sign_message_share(call.idp, call.signing_share)[1] \in {0, 1}

\* C15: no interpolator comes out of two points of equal x-coordinate, and
\* no value out of a split or a reconstruct that meets such points.
C15_EqualXFails ==
    /\ (call.op = "interpolate" /\ call.done /\ call.x_1 = call.x_2) => call.res = None
    /\ (call.op = "round_trip" /\ call.done /\ EqualXInRoundTrip) => call.res = None

\* C16: a secret split under one provider and rotated to another is
\* reconstructed under the new provider.
C16_RotationPreserves ==
    (call.op = "rotate" /\ call.done) => Res.secret = call.x

\* C17 as stated: under a provider whose signature of the signing share
\* differs, reconstruct gives a value other than the secret.
C17_OtherProviderDiffers ==
    (call.op = "other_provider" /\ call.done
        /\ sign_message_share(call.other_idp, call.signing_share)
               # sign_message_share(call.idp, call.signing_share)) =>
        Res.secret # call.x

\* Whether the point (r, s) lies on the line through (0, x) and sub-share b.
OnSplitLine(rs, x, b) == rs[2] = add_mod(x, mul_mod(rs[1], sub_mod(b.y, x)))

\* C17: reconstruct under another provider gives the secret exactly when
\* that provider's point lies on the line through (0, secret) and sub-share
\* b, or, for a point at x = 1, when its y is the secret.
C17_OtherProviderOnLine ==
    (call.op = "other_provider" /\ call.done) =>
        LET rs == sign_message_share(call.other_idp, call.signing_share)
        IN  (Res.secret = call.x) <=>
                IF rs[1] = 1 THEN rs[2] = call.x
                ELSE OnSplitLine(rs, call.x, Res.sub_share_b)

C17_Witness ==
    /\ call.op = "other_provider" /\ call.done
    /\ sign_message_share(call.other_idp, call.signing_share)
           # sign_message_share(call.idp, call.signing_share)
    /\ sign_message_share(call.idp, call.signing_share)[1] \notin {0, 1}
    /\ sign_message_share(call.other_idp, call.signing_share)[1] \notin {0, 1}
    /\ Res.secret = call.x

(***************************************************************************)
(* Identity challenge and identity rotation                                *)
(* (crates/core/src/identity_challenge.rs, identity_rotation.rs,           *)
(* src/crypto.rs), as calls on drawn fragments, providers and keys.        *)
(***************************************************************************)

MaxFragments == 2

\* Challenge fragments: zero, one and the largest value below the modulus.
Fragments == {0, 1, MODULUS - 1}

FragmentLists == UNION {[1..n -> Fragments] : n \in 0..MaxFragments}

\* U256::to_be_bytes, shortened to two bytes.
to_be_bytes(n) == <<n \div 256, n % 256>>

\* wamu_core::utils::prefixed_message_bytes, not part of the sources at hand.
prefixed_message_bytes(bytes) == <<"prefix">> \o bytes

RECURSIVE fold_add_mod(_, _, _)
\* challenge_fragments.iter().fold(acc, |acc, n| acc.add_mod(n, MODULUS)) from element i on.
fold_add_mod(challenge_fragments, acc, i) ==
    IF i > Len(challenge_fragments) THEN acc
    ELSE fold_add_mod(challenge_fragments, add_mod(acc, challenge_fragments[i]), i + 1)

\* Only the first fragment signed.
challenge_message_bytes_first_only(challenge_fragments) ==
    prefixed_message_bytes(to_be_bytes(
        IF challenge_fragments = <<>> THEN 0 ELSE challenge_fragments[1]))

challenge_message_bytes(challenge_fragments) ==
    prefixed_message_bytes(to_be_bytes(fold_add_mod(challenge_fragments, 0, 1)))

\* identity_challenge::respond
respond(challenge_fragments, identity_provider) ==
    sign(identity_provider, challenge_message_bytes(challenge_fragments))

\* identity_challenge::verify
verify(signature, challenge_fragments, vk) ==
    crypto_verify_signature(vk, challenge_message_bytes(challenge_fragments), signature)

\* identity_rotation::challenge_response
challenge_response(challenge_fragments, current_identity_provider, new_identity_provider) ==
    [new_verifying_key |-> verifying_key(new_identity_provider),
     current_signature |-> respond(challenge_fragments, current_identity_provider),
     new_signature |-> respond(challenge_fragments, new_identity_provider)]

\* Error::Crypto(e), the conversion made by the ? operator.
Crypto(e) == <<"Crypto", e>>

\* The new identity verified before the current one.
verify_challenge_response_new_first(response, challenge_fragments, vk) ==
    LET current == verify(response.current_signature, challenge_fragments, vk)
        new == verify(response.new_signature, challenge_fragments, response.new_verifying_key)
    IN  IF new # "Ok" THEN Crypto(new)
        ELSE IF current # "Ok" THEN Crypto(current)
        ELSE "Ok"

\* identity_rotation::verify_challenge_response
verify_challenge_response(response, challenge_fragments, vk) ==
    LET current == verify(response.current_signature, challenge_fragments, vk)
        new == verify(response.new_signature, challenge_fragments, response.new_verifying_key)
    IN  IF current # "Ok" THEN Crypto(current)
        ELSE IF new # "Ok" THEN Crypto(new)
        ELSE "Ok"

RECURSIVE Without(_, _, _)
\* The fragments from position i on, those at the omitted positions left out.
Without(challenge_fragments, omitted, i) ==
    IF i > Len(challenge_fragments) THEN <<>>
    ELSE (IF i \in omitted THEN <<>> ELSE <<challenge_fragments[i]>>)
             \o Without(challenge_fragments, omitted, i + 1)

IdentityCalls ==
    [op : {"challenge"}, signed : FragmentLists, verified : FragmentLists,
     idp : Providers, vk : VerifyingKeys, done : {FALSE}, res : {None}]
    \cup
    {[op |-> "omit", verified |-> F, omitted |-> S, idp |-> i, done |-> FALSE, res |-> None] :
        F \in FragmentLists \ {<<>>}, S \in (SUBSET (1..MaxFragments)) \ {{}},
        i \in Providers}
    \cup
    [op : {"rotation"}, signed : FragmentLists, verified : FragmentLists,
     current_idp : Providers, new_idp : Providers, payload_key : VerifyingKeys,
     vk : ProviderKeys, done : {FALSE}, res : {None}]

InitIdentity ==
    /\ SelfIdle
    /\ kr = KRIdle
    /\ run = RunIdle
    /\ call \in {c \in IdentityCalls : c.op = "omit" => c.omitted \subseteq DOMAIN c.verified}

\* verify(respond(F, I), F2, vk)
CallChallenge ==
    /\ call.op = "challenge" /\ ~call.done
    /\ call' = Done(verify(respond(call.signed, call.idp), call.verified, call.vk))
    /\ UNCHANGED <<self, ret, sent, produced, picked_ok, kr, run>>

\* The response signs the fragments without the omitted ones.
CallOmit ==
    /\ call.op = "omit" /\ ~call.done
    /\ call' = Done(verify(respond(Without(call.verified, call.omitted, 1), call.idp),
                           call.verified, verifying_key(call.idp)))
    /\ UNCHANGED <<self, ret, sent, produced, picked_ok, kr, run>>

\* The payload of challenge_response, carrying payload_key as the new key.
RotationPayload ==
    [challenge_response(call.signed, call.current_idp, call.new_idp)
        EXCEPT !.new_verifying_key = call.payload_key]

CallRotation ==
    /\ call.op = "rotation" /\ ~call.done
    /\ call' = Done(verify_challenge_response(RotationPayload, call.verified, call.vk))
    /\ UNCHANGED <<self, ret, sent, produced, picked_ok, kr, run>>

NextIdentity == CallChallenge \/ CallOmit \/ CallRotation

SpecIdentity == InitIdentity /\ [][NextIdentity]_vars

\* The fragments as a multiset.
Multiset(F) == [v \in Fragments |-> Cardinality({i \in DOMAIN F : F[i] = v})]

SameSum(F, F2) == fold_add_mod(F, 0, 1) = fold_add_mod(F2, 0, 1)

\* A provider whose signatures, and a key whose tags and bytes, the
\* verification supports.
SupportedProvider(i) ==
    /\ i.algo = "ECDSA" /\ i.curve = "Secp256k1" /\ i.enc = "SEC1"
    /\ i.hash = "SHA256" /\ i.sig_enc = "DER"

SupportedKey(vk) ==
    /\ vk.algo = "ECDSA" /\ vk.curve = "Secp256k1" /\ vk.enc = "SEC1"
    /\ vk.key # MalformedKey

\* C18 as stated: Ok exactly for the provider's own key and equal sums,
\* InvalidSignature in every other case.
C18_OkIffKeyAndSum ==
    (call.op = "challenge" /\ call.done) =>
        Res = IF call.vk = verifying_key(call.idp) /\ SameSum(call.signed, call.verified)
              THEN "Ok" ELSE "InvalidSignature"

\* C18: for an ECDSA/secp256k1/SHA-256/DER provider and a well-formed
\* ECDSA/secp256k1/SEC1 key, verify returns Ok exactly when the key is the
\* provider's and the two fragment lists have the same sum, whatever their
\* order, and InvalidSignature otherwise; for any other provider or key it
\* returns an error other than InvalidSignature.
C18_SupportedOkIffKeyAndSum ==
    (call.op = "challenge" /\ call.done) =>
        /\ (SupportedProvider(call.idp) /\ SupportedKey(call.vk)) =>
              /\ Res = IF call.vk = verifying_key(call.idp) /\ SameSum(call.signed, call.verified)
                       THEN "Ok" ELSE "InvalidSignature"
              /\ (call.vk = verifying_key(call.idp)
                     /\ Multiset(call.signed) = Multiset(call.verified)) => Res = "Ok"
        /\ ~(SupportedProvider(call.idp) /\ SupportedKey(call.vk)) =>
              Res \notin {"Ok", "InvalidSignature"}

C18_Witness ==
    /\ call.op = "challenge" /\ call.done
    /\ SupportedProvider(call.idp) /\ call.vk = verifying_key(call.idp)
    /\ Len(call.signed) = 2 /\ call.signed[1] # call.signed[2]
    /\ call.verified = <<call.signed[2], call.signed[1]>>
    /\ Res = "Ok"

\* C19: a response that signs the fragments with at least one of them
\* omitted is not accepted.
C19_OmittedRejected ==
    (call.op = "omit" /\ call.done) => Res # "Ok"

\* The two verifications verify_challenge_response is made of.
CurrentResult == verify(RotationPayload.current_signature, call.verified, call.vk)

NewResult == verify(RotationPayload.new_signature, call.verified, call.payload_key)

MaxApprovals == 2

Initiator == ECDSAProvider("k0")

Approvers == {ECDSAProvider("k1"), ECDSAProvider("k2"), ECDSAProvider("k9")}

\* The verifier's list of verified parties; k9 is not among them.
QuorumVerifiedParties == <<verifying_key(ECDSAProvider("k1")), verifying_key(ECDSAProvider("k2"))>>

\* identity_authed_request::initiate: the signed request of a command.
Request(command, idp, timestamp) ==
    [command |-> command, verifying_key |-> verifying_key(idp), timestamp |-> timestamp,
     signature |-> sign(idp, prefixed_message_bytes(<<command, timestamp>>))]

\* The bytes an approval signs: the fingerprint of the request.
approval_message_bytes(request) == prefixed_message_bytes(<<request, "approval">>)

\* The fragment each approver draws for the challenge.
FragmentOf(idp) ==
    IF idp.key = "k1" THEN 1 ELSE IF idp.key = "k2" THEN MODULUS - 1 ELSE 0

\* The approval of approved_request by idp, as a CommandApprovalPayload.
Approval(idp, approved_request) ==
    [challenge_fragment |-> FragmentOf(idp),
     verifying_key |-> verifying_key(idp),
     signature |-> sign(idp, approval_message_bytes(approved_request))]

Range(f) == {f[i] : i \in DOMAIN f}

RECURSIVE check_approvals(_, _, _, _, _)
\* The approvals from position i on, checked one by one: the approver is a
\* verified party, has not approved before, and signed the request.
check_approvals(approvals, i, seen, request, verified_parties) ==
    IF i > Len(approvals) THEN "Ok"
    ELSE LET approval == approvals[i]
         IN  IF approval.verifying_key \notin Range(verified_parties)
             THEN "UnauthorizedParty"
             ELSE IF approval.verifying_key \in seen
             THEN "DuplicateApproval"
             ELSE IF crypto_verify_signature(approval.verifying_key,
                                             approval_message_bytes(request),
                                             approval.signature) # "Ok"
             THEN "InvalidApprovalSignature"
             ELSE check_approvals(approvals, i + 1, seen \cup {approval.verifying_key},
                                  request, verified_parties)

\* The challenge fragments carried by the approvals, in order.
challenge_fragments_of(approvals) ==
    [i \in 1..Len(approvals) |-> approvals[i].challenge_fragment]

\* quorum_approved_request::verify_challenge_response
quorum_verify_challenge_response(response, approvals, vk, request, quorum_size, verified_parties) ==
    LET checked == check_approvals(approvals, 1, {}, request, verified_parties)
        verified == verify(response.signature, challenge_fragments_of(approvals), vk)
    IN  IF checked # "Ok" THEN checked
        ELSE IF Len(approvals) < quorum_size THEN "InsufficientApprovals"
        ELSE IF verified # "Ok" THEN Crypto(verified)
        ELSE "Ok"

\* The quorum size passed on one too small.
share_addition_verify_off_by_one(response, approvals, vk, request, quorum_size, verified_parties) ==
    quorum_verify_challenge_response(response, approvals, vk, request,
                                     quorum_size - 1, verified_parties)

\* share_addition::verify_challenge_response
share_addition_verify(response, approvals, vk, request, quorum_size, verified_parties) ==
    quorum_verify_challenge_response(response, approvals, vk, request,
                                     quorum_size, verified_parties)

\* share_removal::verify_challenge_response
share_removal_verify(response, approvals, vk, request, quorum_size, verified_parties) ==
    quorum_verify_challenge_response(response, approvals, vk, request,
                                     quorum_size, verified_parties)

\* threshold_modification::verify_challenge_response
threshold_modification_verify(response, approvals, vk, request, quorum_size, verified_parties) ==
    quorum_verify_challenge_response(response, approvals, vk, request,
                                     quorum_size, verified_parties)

Commands == {"share-addition", "share-removal", "threshold-modification"}

\* The approvals an initiator may present for its request: by any approver,
\* of this request or of an earlier one.
ApprovalsFor(command) ==
    {Approval(a, Request(command, Initiator, ts)) : a \in Approvers, ts \in {1, 2}}

QuorumCalls ==
    UNION {[op : {"quorum"}, command : {c},
            approvals : UNION {[1..n -> ApprovalsFor(c)] : n \in 0..MaxApprovals},
            quorum_size : 1..MaxApprovals,
            signer : {Initiator, ECDSAProvider("k9")},
            omitted : {{}, {1}},
            done : {FALSE}, res : {None}] : c \in Commands}

InitQuorum ==
    /\ SelfIdle
    /\ kr = KRIdle
    /\ run = RunIdle
    /\ call \in QuorumCalls

\* The request under verification: the one with timestamp 2.
QuorumRequest == Request(call.command, Initiator, 2)

\* The response: a signature of call.signer over the fragments of the
\* approvals, those at the omitted positions left out.
QuorumResponse ==
    [signature |-> respond(Without(challenge_fragments_of(call.approvals), call.omitted, 1),
                           call.signer)]

CallQuorum ==
    /\ call.op = "quorum" /\ ~call.done
    /\ call' = Done(
          IF call.command = "share-addition"
          THEN share_addition_verify(QuorumResponse, call.approvals, verifying_key(Initiator),
                                     QuorumRequest, call.quorum_size, QuorumVerifiedParties)
          ELSE IF call.command = "share-removal"
          THEN share_removal_verify(QuorumResponse, call.approvals, verifying_key(Initiator),
                                    QuorumRequest, call.quorum_size, QuorumVerifiedParties)
          ELSE threshold_modification_verify(QuorumResponse, call.approvals,
                                             verifying_key(Initiator), QuorumRequest,
                                             call.quorum_size, QuorumVerifiedParties))
    /\ UNCHANGED <<self, ret, sent, produced, picked_ok, kr, run>>

NextQuorum == CallQuorum

SpecQuorum == InitQuorum /\ [][NextQuorum]_vars

\* The positions of the approvals by a verified party over the request.
ValidApprovals ==
    {i \in DOMAIN call.approvals :
        /\ \E k \in {"k1", "k2"} : call.approvals[i].verifying_key.key = k
        /\ call.approvals[i].signature.sig.by = call.approvals[i].verifying_key.key
        /\ call.approvals[i].signature.sig.over = approval_message_bytes(QuorumRequest)}

UniqueApprovers ==
    \A i, j \in DOMAIN call.approvals :
        i # j => call.approvals[i].verifying_key # call.approvals[j].verifying_key

ResponseVerifies ==
    /\ call.signer = Initiator
    /\ SameSum(Without(challenge_fragments_of(call.approvals), call.omitted, 1),
               challenge_fragments_of(call.approvals))

\* C21: the verification of a quorum-approved challenge response returns Ok
\* exactly when every approval is by a verified party and signs the request,
\* no party approves twice, there are at least quorum_size approvals and the
\* response signature verifies; otherwise it returns an error.
C21_QuorumGate ==
    (call.op = "quorum" /\ call.done) =>
        /\ (Res = "Ok") <=>
              /\ ValidApprovals = DOMAIN call.approvals
              /\ UniqueApprovers
              /\ Len(call.approvals) >= call.quorum_size
              /\ ResponseVerifies
        /\ Res = "Ok" =>
              Cardinality({call.approvals[i].verifying_key : i \in ValidApprovals})
                  >= call.quorum_size

C21_Witness ==
    /\ call.op = "quorum" /\ call.done
    /\ call.command = "share-addition"
    /\ Len(call.approvals) = 2 /\ call.quorum_size = 2
    /\ Res = "Ok"

(***************************************************************************)
(* crypto::verify_signature (src/crypto.rs) on keys and signatures of      *)
(* every combination of tags.                                              *)
(***************************************************************************)

SignatureAlgorithms == {"ECDSA", "EdDSA"}

EllipticCurves == {"Secp256k1", "Curve25519"}

HashFunctions == {"SHA256", "KECCAK256"}

KeyEncodings == {"SEC1", "EIP55"}

SignatureEncodings == {"DER", "RLP"}

CryptoMsgs == {"m1", "m2"}

AnyVerifyingKeys ==
    [key : {"k1", MalformedKey}, algo : SignatureAlgorithms, curve : EllipticCurves,
     enc : KeyEncodings]

AnySignatures ==
    [sig : [by : {"k1", "k2"}, over : CryptoMsgs] \cup {MalformedSignature},
     algo : SignatureAlgorithms, curve : EllipticCurves, hash : HashFunctions,
     enc : SignatureEncodings]

CryptoCalls ==
    [op : {"verify_signature"}, vk : AnyVerifyingKeys, msg : CryptoMsgs,
     signature : AnySignatures, done : {FALSE}, res : {None}]

InitCrypto ==
    /\ SelfIdle
    /\ kr = KRIdle
    /\ run = RunIdle
    /\ call \in CryptoCalls

CallVerifySignature ==
    /\ call.op = "verify_signature" /\ ~call.done
    /\ call' = Done(crypto_verify_signature(call.vk, call.msg, call.signature))
    /\ UNCHANGED <<self, ret, sent, produced, picked_ok, kr, run>>

NextCrypto == CallVerifySignature

SpecCrypto == InitCrypto /\ [][NextCrypto]_vars

\* The tag errors in the order of their precedence, each with the condition
\* under which it applies.
TagErrors ==
    << <<call.vk.algo # call.signature.algo, "SignatureAlgorithmMismatch">>,
       <<call.vk.curve # call.signature.curve, "EllipticCurveMismatch">>,
       <<call.vk.algo # "ECDSA", "UnsupportedSignatureAlgorithm">>,
       <<call.vk.curve # "Secp256k1", "UnsupportedEllipticCurve">>,
       <<call.vk.enc # "SEC1", "UnsupportedKeyEncoding">>,
       <<call.signature.enc # "DER", "UnsupportedSignatureEncoding">>,
       <<call.signature.hash # "SHA256", "UnsupportedHashFunction">> >>

Applicable == {i \in DOMAIN TagErrors : TagErrors[i][1]}

\* C22: verify_signature returns the first applicable tag error in the order
\* SignatureAlgorithmMismatch, EllipticCurveMismatch,
\* UnsupportedSignatureAlgorithm, UnsupportedEllipticCurve,
\* UnsupportedKeyEncoding, UnsupportedSignatureEncoding,
\* UnsupportedHashFunction, whatever the key, signature and message bytes
\* are; Ok is returned only for ECDSA / secp256k1 / SEC1 / DER / SHA-256.
C22_TagPrecedence ==
    (call.op = "verify_signature" /\ call.done) =>
        /\ Applicable # {} =>
              Res = TagErrors[CHOOSE i \in Applicable : \A j \in Applicable : i <= j][2]
        /\ Applicable = {} =>
              Res \in {"Ok", "InvalidSignature", "InvalidVerifyingKey"}
        /\ Res = "Ok" =>
              /\ call.vk.algo = "ECDSA" /\ call.signature.algo = "ECDSA"
              /\ call.vk.curve = "Secp256k1" /\ call.signature.curve = "Secp256k1"
              /\ call.vk.enc = "SEC1" /\ call.signature.enc = "DER"
              /\ call.signature.hash = "SHA256"

C22_Witness ==
    /\ call.op = "verify_signature" /\ call.done
    /\ call.vk.algo = call.signature.algo /\ call.vk.curve = call.signature.curve
    /\ call.vk.algo = "ECDSA" /\ call.vk.curve = "Secp256k1" /\ call.vk.enc = "SEC1"
    /\ call.signature.enc = "RLP" /\ call.signature.hash = "KECCAK256"
    /\ Res = "UnsupportedSignatureEncoding"

(***************************************************************************)
(* One call of handle_incoming or proceed on an orchestrator, with what    *)
(* the sub-machines do in it (authorized_key_refresh.rs): the errors the   *)
(* call returns.                                                           *)
(***************************************************************************)

\* A call in which the active sub-machine succeeds and moves on a round.
OkAdvance == [res |-> "Ok", emit |-> 0, adv |-> TRUE, new |-> "Ok", new_emit |-> 0]

RECURSIVE Drive(_, _)
\* The orchestrator after up to k calls of proceed in its init phase.
Drive(s, k) ==
    IF k = 0 \/ is_some(s.refresh_state_machine) THEN s
    ELSE LET r == proceed(s, OkAdvance, 0)
         IN  IF r.res # OkRes THEN s ELSE Drive(r.self, k - 1)

\* Orchestrators in their init phase, before and at its last round, and in
\* their refresh phase.
ErrStates ==
    {Drive(s, k) :
        s \in {ShareAddition_new(1, n, t, is_new, 0) :
                  n \in NParties, t \in Thresholds, is_new \in BOOLEAN}
              \cup {ShareRemoval_new(1, n, t, 0) : n \in NParties, t \in Thresholds},
        k \in 0..InitTotalRounds}

ErrCalls ==
    UNION {[op : {"handle_incoming"}, s : {s}, msg : Msgs(s), nd : NDFor(s, 0),
            done : {FALSE}, res : {None}]
           \cup [op : {"proceed"}, s : {s}, nd : NDFor(s, 0), done : {FALSE}, res : {None}] :
           s \in ErrStates}

InitErr ==
    /\ SelfIdle
    /\ kr = KRIdle
    /\ run = RunIdle
    /\ call \in ErrCalls

CallHandleIncoming ==
    /\ call.op = "handle_incoming" /\ ~call.done
    /\ call' = Done(handle_incoming(call.s, call.msg, call.nd, 0))
    /\ UNCHANGED <<self, ret, sent, produced, picked_ok, kr, run>>

CallProceed ==
    /\ call.op = "proceed" /\ ~call.done
    /\ call' = Done(proceed(call.s, call.nd, 0))
    /\ UNCHANGED <<self, ret, sent, produced, picked_ok, kr, run>>

NextErr == CallHandleIncoming \/ CallProceed

SpecErr == InitErr /\ [][NextErr]_vars

InitActive == is_none(call.s.refresh_state_machine)

\* The call reaches the active sub-machine.
Forwarded ==
    \/ call.op = "proceed"
    \/ call.op = "handle_incoming" /\ (call.msg.body.tag = "Init" <=> InitActive)

\* The active sub-machine returns an error.
SubMachineFails == Forwarded /\ call.nd.res = "Err"

\* The call reaches the transition edge and no refresh machine comes of it.
ConstructionFails ==
    /\ Forwarded /\ call.nd.res = "Ok"
    /\ TransitionDue(call.s, call.nd)
    /\ is_none(Res.self.refresh_state_machine)

\* C23: an error of the init sub-machine is returned as Init(e), an error
\* of the refresh sub-machine or of its construction at the transition edge
\* as Refresh(e); no sub-machine error is swallowed and none is reported
\* under the other phase's variant.
C23_ErrorsWrappedByPhase ==
    (call.op \in {"handle_incoming", "proceed"} /\ call.done) =>
        /\ (SubMachineFails /\ InitActive) => Res.res = ErrRes("Init", "Err")
        /\ (SubMachineFails /\ ~InitActive) => Res.res = ErrRes("Refresh", "Err")
        /\ ConstructionFails =>
              /\ Res.res.err = "Refresh"
              /\ Res.res.inner \in {"Core", "StateMachine", "BadFSDKRThreshold"}
        /\ Res.res.err = "Init" => (SubMachineFails /\ InitActive)
        /\ Res.res.err = "Refresh" =>
              (SubMachineFails /\ ~InitActive) \/ (ConstructionFails /\ InitActive)
        /\ Res.res.err \in {"Ok", "Init", "Refresh", "OutOfOrderMessage"}
        /\ Res.res.err = "OutOfOrderMessage" <=> ~Forwarded

C23_Witness ==
    /\ call.op = "handle_incoming" /\ call.done
    /\ ~InitActive /\ SubMachineFails
    /\ Res.res = ErrRes("Refresh", "Err")

(***************************************************************************)
(* ShareAddition::new with its optional arguments (share_addition.rs).     *)
(***************************************************************************)

\* a.or(b) of Option
or(a, b) == IF is_some(a) THEN a ELSE b

\* The machine built from index, threshold and party counts once they are
\* known: QuorumApproval::new, the fields of the struct and the first
\* update of the composite queue.  The initiator's quorum approval emits its
\* request at once.
ShareAddition_build(a, idx, threshold, current_n_parties) ==
    [ machine |->
          [ShareAddition_new(idx, a.n_parties, threshold, is_none(a.local_key_option),
                             IF a.is_initiator THEN 1 ELSE 0)
              EXCEPT !.signing_share_option = a.signing_share_option,
                     !.sub_share_option = a.sub_share_option,
                     !.local_key_option = a.local_key_option],
      quorum_approval |->
          [idx |-> idx, threshold |-> threshold, n_parties |-> current_n_parties,
           is_initiator |-> a.is_initiator,
           is_new_party |-> is_none(a.local_key_option)] ]

\* The optional arguments preferred to the local key.
ShareAddition_try_new_args_first(a) ==
    LET key == a.local_key_option
        idx == or(a.new_party_index_option,
                  IF is_some(key) THEN Some(unwrap(key).i) ELSE None)
        threshold == or(a.current_threshold_option,
                        IF is_some(key) THEN Some(unwrap(key).t) ELSE None)
        current_n_parties == or(a.current_n_parties_option,
                                IF is_some(key) THEN Some(unwrap(key).n) ELSE None)
    IN  IF is_none(idx) \/ is_none(threshold) \/ is_none(current_n_parties)
        THEN [res |-> ErrRes("InvalidInput", "-"), built |-> None]
        ELSE [res |-> OkRes,
              built |-> Some(ShareAddition_build(a, unwrap(idx), unwrap(threshold),
                                                 unwrap(current_n_parties)))]

\* ShareAddition::new
ShareAddition_try_new(a) ==
    LET key == a.local_key_option
        idx == or(IF is_some(key) THEN Some(unwrap(key).i) ELSE None,
                  a.new_party_index_option)
        threshold == or(IF is_some(key) THEN Some(unwrap(key).t) ELSE None,
                        a.current_threshold_option)
        current_n_parties == or(IF is_some(key) THEN Some(unwrap(key).n) ELSE None,
                                a.current_n_parties_option)
    IN  IF is_none(idx) THEN [res |-> ErrRes("InvalidInput", "-"), built |-> None]
        ELSE IF is_none(threshold) THEN [res |-> ErrRes("InvalidInput", "-"), built |-> None]
        ELSE IF is_none(current_n_parties)
        THEN [res |-> ErrRes("InvalidInput", "-"), built |-> None]
        ELSE [res |-> OkRes,
              built |-> Some(ShareAddition_build(a, unwrap(idx), unwrap(threshold),
                                                 unwrap(current_n_parties)))]

\* A local key of party 1 of 4 with threshold 2; the optional arguments, when
\* given, name other values.
ShareAdditionArgs ==
    [ signing_share_option : Presence("signing_share"),
      sub_share_option : Presence("sub_share"),
      local_key_option : Presence([i |-> 1, t |-> 2, n |-> 4]),
      new_party_index_option : Presence(5),
      n_parties : {4, 5},
      current_threshold_option : Presence(1),
      current_n_parties_option : Presence(3),
      is_initiator : BOOLEAN ]

InitSA ==
    /\ SelfIdle
    /\ kr = KRIdle
    /\ run = RunIdle
    /\ call \in [op : {"ShareAddition::new"}, args : ShareAdditionArgs,
                 done : {FALSE}, res : {None}]

CallShareAdditionNew ==
    /\ call.op = "ShareAddition::new" /\ ~call.done
    /\ call' = Done(ShareAddition_try_new(call.args))
    /\ UNCHANGED <<self, ret, sent, produced, picked_ok, kr, run>>

NextSA == CallShareAdditionNew

SpecSA == InitSA /\ [][NextSA]_vars

\* C24: ShareAddition::new returns InvalidInput and builds no machine exactly
\* when the local key is absent and one of new_party_index,
\* current_threshold and current_n_parties is absent too; with a local key
\* its i, t and n are used and the optional arguments are ignored.
C24_InvalidInput ==
    (call.op = "ShareAddition::new" /\ call.done) =>
        LET a == call.args
            missing == /\ is_none(a.local_key_option)
                       /\ \/ is_none(a.new_party_index_option)
                          \/ is_none(a.current_threshold_option)
                          \/ is_none(a.current_n_parties_option)
        IN  /\ missing => (Res.res = ErrRes("InvalidInput", "-") /\ Res.built = None)
            /\ ~missing => (Res.res = OkRes /\ is_some(Res.built))
            /\ (~missing /\ is_some(a.local_key_option)) =>
                  LET b == unwrap(Res.built)
                      key == unwrap(a.local_key_option)
                  IN  /\ b.machine.idx = key.i
                      /\ b.machine.threshold = key.t
                      /\ b.quorum_approval.idx = key.i
                      /\ b.quorum_approval.threshold = key.t
                      /\ b.quorum_approval.n_parties = key.n
            /\ (~missing /\ is_none(a.local_key_option)) =>
                  LET b == unwrap(Res.built)
                  IN  /\ b.machine.idx = unwrap(a.new_party_index_option)
                      /\ b.machine.threshold = unwrap(a.current_threshold_option)
                      /\ b.quorum_approval.n_parties = unwrap(a.current_n_parties_option)

C24_Witness ==
    /\ call.op = "ShareAddition::new" /\ call.done
    /\ is_none(call.args.local_key_option)
    /\ is_some(call.args.new_party_index_option)
    /\ is_some(call.args.current_threshold_option)
    /\ is_none(call.args.current_n_parties_option)
    /\ Res.res = ErrRes("InvalidInput", "-")

(***************************************************************************)
(* IsCritical of the two error types (authorized_key_refresh.rs,           *)
(* errors.rs).                                                             *)
(***************************************************************************)

CryptoErrors ==
    {"InvalidSignature", "InvalidVerifyingKey", "SignatureAlgorithmMismatch",
     "EllipticCurveMismatch", "UnsupportedHashFunction", "UnsupportedSignatureEncoding",
     "UnsupportedKeyEncoding", "UnsupportedEllipticCurve", "UnsupportedSignatureAlgorithm"}

\* Errors of an upstream state machine, critical or not.
UpstreamErrors ==
    [kind : {"HandleMessage", "ProceedRound", "ReceivedOutOfOrderMessage",
             "DoublePickOutput", "OutputPicked", "InternalError"},
     critical : BOOLEAN]

\* The payload of a variant that wraps no state machine error.
NoUpstream == [kind |-> "-", critical |-> TRUE]

\* errors::Error<T>
AugmentedErrors ==
    {[variant |-> "Core", inner |-> [kind |-> e, critical |-> TRUE], bad_actors |-> <<>>] :
        e \in CryptoErrors}
    \cup {[variant |-> "StateMachine", inner |-> e, bad_actors |-> <<>>] : e \in UpstreamErrors}
    \cup {[variant |-> "MissingParams", inner |-> NoUpstream, bad_actors |-> bad] :
             bad \in {<<1>>, <<2>>, <<3>>, <<1, 2>>, <<1, 3>>, <<2, 3>>, <<1, 2, 3>>}}
    \cup {[variant |-> "BadFSDKRThreshold", inner |-> NoUpstream, bad_actors |-> <<>>]}

\* The payload of a variant of the orchestrator's error that wraps nothing.
NoInner == [variant |-> "-", inner |-> NoUpstream, bad_actors |-> <<>>]

\* authorized_key_refresh::Error; the init machine's error type is one with
\* a criticality of its own.
OrchestratorErrors ==
    {[variant |-> "Init", inner |-> e] : e \in AugmentedErrors}
    \cup {[variant |-> "Refresh", inner |-> e] : e \in AugmentedErrors}
    \cup {[variant |-> v, inner |-> NoInner] :
             v \in {"AlreadyPicked", "InvalidInput", "OutOfOrderMessage"}}

\* impl IsCritical for errors::Error<T>
augmented_is_critical(error) ==
    IF error.variant = "Core" THEN TRUE
    ELSE IF error.variant = "StateMachine" THEN error.inner.critical
    ELSE IF error.variant = "MissingParams" THEN TRUE
    ELSE TRUE

\* The criticality of a wrapped error passed on.
orchestrator_is_critical_delegating(error) ==
    IF error.variant \in {"Init", "Refresh"} THEN augmented_is_critical(error.inner)
    ELSE TRUE

\* impl IsCritical for authorized_key_refresh::Error
orchestrator_is_critical(error) == TRUE

InitCritical ==
    /\ SelfIdle
    /\ kr = KRIdle
    /\ run = RunIdle
    /\ call \in [op : {"orchestrator_is_critical"}, error : OrchestratorErrors,
                 done : {FALSE}, res : {None}]
                \cup [op : {"augmented_is_critical"},
                      error : {[variant |-> "-", inner |-> e] : e \in AugmentedErrors},
                      done : {FALSE}, res : {None}]

CallOrchestratorIsCritical ==
    /\ call.op = "orchestrator_is_critical" /\ ~call.done
    /\ call' = Done(orchestrator_is_critical(call.error))
    /\ UNCHANGED <<self, ret, sent, produced, picked_ok, kr, run>>

CallAugmentedIsCritical ==
    /\ call.op = "augmented_is_critical" /\ ~call.done
    /\ call' = Done(augmented_is_critical(call.error.inner))
    /\ UNCHANGED <<self, ret, sent, produced, picked_ok, kr, run>>

NextCritical == CallOrchestratorIsCritical \/ CallAugmentedIsCritical

SpecCritical == InitCritical /\ [][NextCritical]_vars

\* C25: every error of the orchestrator is critical, whatever the
\* criticality of an error it wraps; of the augmented wrapper's errors,
\* StateMachine(inner) is as critical as inner, and Core, MissingParams and
\* BadFSDKRThreshold are critical.
C25_Criticality ==
    /\ (call.op = "orchestrator_is_critical" /\ call.done) => Res = TRUE
    /\ (call.op = "augmented_is_critical" /\ call.done) =>
          Res = IF call.error.inner.variant = "StateMachine"
                THEN call.error.inner.inner.critical
                ELSE TRUE

C25_Witness ==
    /\ call.op = "orchestrator_is_critical" /\ call.done
    /\ call.error.variant = "Refresh"
    /\ call.error.inner.variant = "StateMachine"
    /\ ~call.error.inner.inner.critical
    /\ Res = TRUE

(***************************************************************************)
(* SigningShare and SubShare values and the assertions that guard them     *)
(* (src/sub_share.rs).  A panic is the result None.                        *)
(***************************************************************************)

\* U256::from_be_bytes of the two bytes that stand for the 32 of the code.
from_be_bytes(bytes) == bytes[1] * 256 + bytes[2]

\* crypto::random_mod: a value below the modulus.
random_mod == Field

\* SigningShare::new, for the value random_mod draws.
SigningShare_new(random) == to_be_bytes(random)

\* impl From<&[u8]> for SigningShare: the length is asserted, nothing else.
SigningShare_from(slice) == IF Len(slice) # 2 THEN None ELSE Some(slice)

\* Only the x-coordinate asserted.
SubShare_new_asserting_x_only(x, y) ==
    IF ~(x < MODULUS) THEN None ELSE Some(SubShare_new(x, y))

\* SubShare::new with its two assertions.
SubShare_new_asserting(x, y) ==
    IF ~(x < MODULUS) THEN None
    ELSE IF ~(y < MODULUS) THEN None
    ELSE Some(SubShare_new(x, y))

\* The index zero let through.
sub_share_asserting_zero_allowed(interpolator, idx) ==
    IF ~(idx < MODULUS) THEN None ELSE Some(sub_share(interpolator, idx))

\* SubShareInterpolator::sub_share with its two assertions.
sub_share_asserting(interpolator, idx) ==
    IF ~(idx < MODULUS) THEN None
    ELSE IF ~(idx > 0) THEN None
    ELSE Some(sub_share(interpolator, idx))

\* split with the assertions of the SubShare::new calls it makes.
split_asserting(secret_share, identity_provider, signing_share) ==
    LET rs == sign_message_share(identity_provider, signing_share)
        sub_share_a == SubShare_new_asserting(rs[1], rs[2])
        sub_share_0 == SubShare_new_asserting(0, secret_share)
    IN  IF is_none(sub_share_a) THEN None
        ELSE IF is_none(sub_share_0) THEN None
        ELSE LET interpolator == SubShareInterpolator_new(unwrap(sub_share_0),
                                                          unwrap(sub_share_a))
                 sub_share_b == sub_share_asserting(interpolator, 1)
             IN  IF is_none(sub_share_b) THEN None
                 ELSE Some(<<signing_share, unwrap(sub_share_b)>>)

\* Bytes of a slice: small ones, the modulus and the largest.
SliceBytes == {0, 1, MODULUS - 1, MODULUS, 255}

\* Coordinates and indices below, at and above the modulus.
Coordinates == 0..(MODULUS + 1)

Interpolators == [gradient : Field, intercept : Field]

ValueCalls ==
    [op : {"SigningShare::new"}, random : random_mod, done : {FALSE}, res : {None}]
    \cup [op : {"SigningShare::from"}, slice : UNION {[1..n -> SliceBytes] : n \in 1..3},
          done : {FALSE}, res : {None}]
    \cup [op : {"SubShare::new"}, x : Coordinates, y : Coordinates,
          done : {FALSE}, res : {None}]
    \cup [op : {"sub_share"}, interpolator : Interpolators, idx : Coordinates,
          done : {FALSE}, res : {None}]
    \cup [op : {"split"}, secret_share : Coordinates, r : Coordinates, s : Coordinates,
          done : {FALSE}, res : {None}]

InitValues ==
    /\ SelfIdle
    /\ kr = KRIdle
    /\ run = RunIdle
    /\ call \in ValueCalls

CallSigningShareNew ==
    /\ call.op = "SigningShare::new" /\ ~call.done
    /\ call' = Done(Some(SigningShare_new(call.random)))
    /\ UNCHANGED <<self, ret, sent, produced, picked_ok, kr, run>>

CallSigningShareFrom ==
    /\ call.op = "SigningShare::from" /\ ~call.done
    /\ call' = Done(SigningShare_from(call.slice))
    /\ UNCHANGED <<self, ret, sent, produced, picked_ok, kr, run>>

CallSubShareNew ==
    /\ call.op = "SubShare::new" /\ ~call.done
    /\ call' = Done(SubShare_new_asserting(call.x, call.y))
    /\ UNCHANGED <<self, ret, sent, produced, picked_ok, kr, run>>

CallSubShare ==
    /\ call.op = "sub_share" /\ ~call.done
    /\ call' = Done(sub_share_asserting(call.interpolator, call.idx))
    /\ UNCHANGED <<self, ret, sent, produced, picked_ok, kr, run>>

CallSplit ==
    /\ call.op = "split" /\ ~call.done
    /\ call' = Done(split_asserting(call.secret_share,
                                    [m \in SigningShares |-> <<call.r, call.s>>], 0))
    /\ UNCHANGED <<self, ret, sent, produced, picked_ok, kr, run>>

NextValues ==
    CallSigningShareNew \/ CallSigningShareFrom \/ CallSubShareNew \/ CallSubShare
        \/ CallSplit

SpecValues == InitValues /\ [][NextValues]_vars

\* C26: a signing share, made by SigningShare::new or converted from a
\* slice, is below the order of the curve.
C26_SigningShareBelowOrder ==
    (call.op \in {"SigningShare::new", "SigningShare::from"} /\ call.done /\ is_some(Res)) =>
        from_be_bytes(unwrap(Res)) < MODULUS

\* C27: SubShare::new gives a sub-share exactly when both coordinates are
\* below the order of the curve; the sub-shares of sub_share and of split
\* have both coordinates below it, and that of split is at x = 1.
C27_SubShareInRange ==
    /\ (call.op = "SubShare::new" /\ call.done) =>
          Res = IF call.x < MODULUS /\ call.y < MODULUS
                THEN Some([x |-> call.x, y |-> call.y]) ELSE None
    /\ (call.op = "sub_share" /\ call.done /\ is_some(Res)) =>
          (unwrap(Res).x \in Field /\ unwrap(Res).y \in Field)
    /\ (call.op = "split" /\ call.done /\ is_some(Res)) =>
          /\ unwrap(Res)[2].x = 1
          /\ unwrap(Res)[2].y \in Field
    /\ (call.op = "split" /\ call.done) =>
          (is_some(Res) <=> (call.secret_share < MODULUS /\ call.r < MODULUS
                                /\ call.s < MODULUS))

C27_Witness ==
    /\ call.op = "SubShare::new" /\ call.done
    /\ call.x < MODULUS /\ call.y = MODULUS
    /\ Res = None

\* C28: sub_share gives no sub-share for the index zero and for an index
\* not below the order of the curve, and for any other index a point that
\* is not at x = 0; the intercept is what secret() returns.
C28_ZeroIndexRefused ==
    (call.op = "sub_share" /\ call.done) =>
        /\ (Res = None) <=> (call.idx = 0 \/ call.idx >= MODULUS)
        /\ is_some(Res) => unwrap(Res).x = call.idx /\ unwrap(Res).x # 0
        /\ secret(call.interpolator) = call.interpolator.intercept

C28_Witness ==
    /\ call.op = "sub_share" /\ call.done
    /\ call.idx = 0 /\ call.interpolator.intercept # 0
    /\ Res = None

-----------------------------------------------------------------------------
(* The orchestrator's identity and its outgoing queues.                    *)

\* C29: no step of the orchestrator (handle_incoming, proceed with or
\* without the phase transition, pick_output, the host taking messages)
\* changes what party_ind() and parties() return.
C29_IdentityFixed ==
    [][party_ind(self)' = party_ind(self) /\ parties(self)' = parties(self)]_vars

C29_Witness ==
    /\ ret.op = "pick_output" /\ ret.out = "Some(Ok)"
    /\ party_ind(self) = 2
    /\ parties(self) \in NParties

\* C30: after construction and after every handle_incoming or proceed that
\* returns Ok, the outgoing queues of both sub-machines are empty and every
\* message produced so far is in the composite queue (or was taken from
\* it), tagged with its producer's phase, its sender and receiver as the
\* sub-machine set them.
C30_QueuesDrained ==
    AfterOkCall =>
        /\ self.init_state_machine.message_queue = <<>>
        /\ RefreshActive => self.refresh_state_machine[1].message_queue = <<>>
        /\ Len(Appended) = produced
        /\ \A k \in 1..Len(Appended) :
              \E by \in {"init", "refresh"} :
                  Appended[k] =
                      [ sender |-> party_ind(self),
                        receiver |-> None,
                        body |-> [ tag |-> IF by = "init" THEN "Init" ELSE "Refresh",
                                   inner |-> [by |-> by, n |-> k] ] ]

C30_Witness ==
    /\ ret.op \in {"handle_incoming", "proceed"} /\ ret.res = OkRes
    /\ RefreshActive
    /\ self.refresh_state_machine[1].round = 0
    /\ self.refresh_state_machine[1].message_queue = <<>>
    /\ self.message_queue # <<>>
    /\ self.message_queue[Len(self.message_queue)].body.tag = "Refresh"

-----------------------------------------------------------------------------
(* current_round, total_rounds and round_timeout of the orchestrator.      *)
(* A sub-machine's current_round() is its round counter; whether its       *)
(* total_rounds() is Some(total) or None is up to the machine (`known`).   *)

unwrap_or(o, default) == IF is_some(o) THEN unwrap(o) ELSE default

sub_current_round(sm) == sm.round

sub_total_rounds(sm, known) == IF known THEN Some(sm.total) ELSE None

\* The refresh machine's round alone once it is active.
current_round_active_only(s, known) ==
    IF is_none(s.refresh_state_machine)
    THEN sub_current_round(s.init_state_machine)
    ELSE sub_current_round(unwrap(s.refresh_state_machine))

current_round(s, known) ==
    IF is_none(s.refresh_state_machine)
    THEN sub_current_round(s.init_state_machine)
    ELSE unwrap_or(sub_total_rounds(s.init_state_machine, known), 0)
            + sub_current_round(unwrap(s.refresh_state_machine))

total_rounds(s) == None

round_timeout(s) == None

\* An orchestrator whose init machine has one more round to go through.
LongInit(s) == [s EXCEPT !.init_state_machine.total = @ + 1]

LongInitStates ==
    {Drive(LongInit(s), k) :
        s \in {ShareAddition_new(1, n, t, is_new, 0) :
                  n \in NParties, t \in Thresholds, is_new \in BOOLEAN}
              \cup {ShareRemoval_new(1, n, t, 0) : n \in NParties, t \in Thresholds},
        k \in 0..(InitTotalRounds + 1)}

\* Orchestrators in either phase, the refresh machine at any of its rounds.
RoundStates ==
    ErrStates \cup LongInitStates
        \cup {proceed(s, OkAdvance, 0).self : s \in ErrStates \cup LongInitStates}

RoundCalls ==
    UNION {[op : {"current_round"}, s : {s}, known : BOOLEAN, done : {FALSE}, res : {None}]
           \cup [op : {"total_rounds", "round_timeout"}, s : {s}, done : {FALSE}, res : {None}]
           \cup [op : {"proceed"}, s : {s}, known : BOOLEAN, nd : NDFor(s, 0),
                 done : {FALSE}, res : {None}]
           \cup [op : {"handle_incoming"}, s : {s}, known : BOOLEAN, msg : Msgs(s),
                 nd : {OkAdvance}, done : {FALSE}, res : {None}] :
           s \in RoundStates}

InitRound ==
    /\ SelfIdle
    /\ kr = KRIdle
    /\ run = RunIdle
    /\ call \in RoundCalls

\* The round reported before and after a call, with the call's result.
RoundsAround(s, known, r) ==
    [res |-> r.res, before |-> current_round(s, known),
     after |-> current_round(r.self, known), self |-> r.self]

CallCurrentRound ==
    /\ call.op = "current_round" /\ ~call.done
    /\ call' = Done(current_round(call.s, call.known))
    /\ UNCHANGED <<self, ret, sent, produced, picked_ok, kr, run>>

CallTotalRounds ==
    /\ call.op = "total_rounds" /\ ~call.done
    /\ call' = Done(total_rounds(call.s))
    /\ UNCHANGED <<self, ret, sent, produced, picked_ok, kr, run>>

CallRoundTimeout ==
    /\ call.op = "round_timeout" /\ ~call.done
    /\ call' = Done(round_timeout(call.s))
    /\ UNCHANGED <<self, ret, sent, produced, picked_ok, kr, run>>

CallProceedRounds ==
    /\ call.op = "proceed" /\ ~call.done
    /\ call' = Done(RoundsAround(call.s, call.known, proceed(call.s, call.nd, 0)))
    /\ UNCHANGED <<self, ret, sent, produced, picked_ok, kr, run>>

CallHandleIncomingRounds ==
    /\ call.op = "handle_incoming" /\ ~call.done
    /\ call' = Done(RoundsAround(call.s, call.known,
                                 handle_incoming(call.s, call.msg, call.nd, 0)))
    /\ UNCHANGED <<self, ret, sent, produced, picked_ok, kr, run>>

NextRound ==
    CallCurrentRound \/ CallTotalRounds \/ CallRoundTimeout \/ CallProceedRounds
        \/ CallHandleIncomingRounds

SpecRound == InitRound /\ [][NextRound]_vars

\* C31: current_round() is the init machine's current round while no
\* refresh machine exists, and the init machine's total_rounds() (0 when
\* None) plus the refresh machine's current round once one does;
\* total_rounds() and round_timeout() are None.
C31_CurrentRound ==
    /\ (call.op = "current_round" /\ call.done) =>
          Res = IF call.s.refresh_state_machine = None
                THEN call.s.init_state_machine.round
                ELSE (IF call.known THEN call.s.init_state_machine.total ELSE 0)
                        + call.s.refresh_state_machine[1].round
    /\ (call.op \in {"total_rounds", "round_timeout"} /\ call.done) => Res = None

C31_Witness ==
    /\ call.op = "current_round" /\ call.done /\ call.known
    /\ call.s.refresh_state_machine # None
    /\ call.s.refresh_state_machine[1].round = RefreshTotalRounds
    /\ call.s.init_state_machine.total = InitTotalRounds
    /\ Res = InitTotalRounds + RefreshTotalRounds

\* C39: a handle_incoming or proceed call that returns Ok does not make
\* current_round() smaller, whether or not the init machine reports its
\* total_rounds().
C39_RoundNeverDecreases ==
    (call.op \in {"proceed", "handle_incoming"} /\ call.done /\ Res.res = OkRes) =>
        Res.after >= Res.before

-----------------------------------------------------------------------------
(* The attestations of key refresh messages.                               *)

\* The message is one whose sender's class attests its round, and it
\* carries the attestation and the round body.
Attested(k, msg) ==
    AttestationRequired(k, msg) /\ is_some(msg.body.extra)
        /\ is_some(msg.body.base.out_msg)

ExpectedBytes(msg) ==
    prefix_message_bytes(parameter_hash(msg.sender, unwrap(msg.body.base.out_msg)))

\* The attestation's signature was made with its key over the commitment
\* of this message.
SignedBySigner(msg) ==
    LET params == unwrap(msg.body.extra)
    IN  /\ params.verifying_signature.sig.by = params.verifying_key.key
        /\ params.verifying_signature.sig.over = ExpectedBytes(msg)

\* Key and signature carry the tags crypto::verify_signature supports.
SupportedTags(params) ==
    /\ SupportedKey(params.verifying_key)
    /\ params.verifying_signature.algo = "ECDSA"
    /\ params.verifying_signature.curve = "Secp256k1"
    /\ params.verifying_signature.hash = "SHA256"
    /\ params.verifying_signature.enc = "DER"

Passed(res) == res.err \in {"Ok", "StateMachine"}

LastAttested == kr.pc = "running" /\ is_some(kr.last.msg) /\ Attested(kr, LastMsg)

\* C32 as stated: an unverified key gives UnauthorizedParty, a verified key
\* with a signature that does not verify gives InvalidSignature, and the
\* message passes only when both checks do.
C32_UnauthorizedElseInvalid ==
    LastAttested =>
        LET params == unwrap(LastMsg.body.extra)
        IN  /\ params.verifying_key \notin kr.verified_parties =>
                  kr.last.res = KRRes("Core", "UnauthorizedParty", <<>>)
            /\ (params.verifying_key \in kr.verified_parties /\ ~SignedBySigner(LastMsg)) =>
                  kr.last.res = KRRes("Core", "InvalidSignature", <<>>)
            /\ Passed(kr.last.res) =>
                  (params.verifying_key \in kr.verified_parties /\ SignedBySigner(LastMsg))

\* C32: an unverified key gives UnauthorizedParty whatever the signature; a
\* verified key whose tags and whose signature's tags are the supported
\* ones gives InvalidSignature unless the signature is the key's over the
\* message's commitment; a verified key with other tags gives the tag error
\* of verify_signature; the message passes only for a verified key with
\* supported tags and such a signature.
C32_UnauthorizedElseVerifyError ==
    LastAttested =>
        LET params == unwrap(LastMsg.body.extra)
            verified == params.verifying_key \in kr.verified_parties
        IN  /\ ~verified => kr.last.res = KRRes("Core", "UnauthorizedParty", <<>>)
            /\ (verified /\ SupportedTags(params) /\ ~SignedBySigner(LastMsg)) =>
                  kr.last.res = KRRes("Core", "InvalidSignature", <<>>)
            /\ (verified /\ ~SupportedTags(params)) =>
                  /\ kr.last.res.err = "Core"
                  /\ kr.last.res.inner \in
                        {"SignatureAlgorithmMismatch", "EllipticCurveMismatch",
                         "UnsupportedSignatureAlgorithm", "UnsupportedEllipticCurve",
                         "UnsupportedKeyEncoding", "UnsupportedSignatureEncoding",
                         "UnsupportedHashFunction"}
            /\ Passed(kr.last.res) <=>
                  (verified /\ SupportedTags(params) /\ SignedBySigner(LastMsg))

C32_Witness ==
    /\ LastAttested
    /\ unwrap(LastMsg.body.extra).verifying_key \notin kr.verified_parties
    /\ SignedBySigner(LastMsg)
    /\ kr.last.res = KRRes("Core", "UnauthorizedParty", <<>>)

\* C37: a message that must be attested and whose attestation carries the
\* key of a party other than its sender does not pass.
C37_AttestedBySender ==
    (LastAttested
        /\ unwrap(LastMsg.body.extra).verifying_key
              # verifying_key(KRProvider(LastMsg.sender))) =>
        ~Passed(kr.last.res)

\* What the sender's own machine attaches to the base message.
Outgoing(k, sender, msg_body) ==
    augment_outgoing_message([existing_parties |-> k.existing_parties,
                              identity_provider |-> KRProvider(sender)], sender, msg_body)

HonestMsg(k, msg) == msg.body.extra = Outgoing(k, msg.sender, msg.body.base)

\* C38 as stated: a message as an honest, verified sender's machine makes it
\* passes the receiver's validation, and an attestation is attached exactly
\* by a new party in Round 1 and an existing party in Round 2, given a body.
C38_AugmentedAccepted ==
    /\ (kr.pc = "running" /\ is_some(kr.last.msg) /\ HonestMsg(kr, LastMsg)) =>
          Passed(kr.last.res)
    /\ kr.pc = "running" =>
          \A msg \in KRMsgs :
              is_some(Outgoing(kr, msg.sender, msg.body.base)) <=>
                  (AttestationRequired(kr, msg) /\ is_some(msg.body.base.out_msg))

\* C38: a message as the machine of an honest, verified sender with an
\* ECDSA/secp256k1/SHA-256 provider makes it, with a round body whenever the
\* sender's class attests the round, passes the receiver's validation; an
\* attestation is attached exactly by a new party in Round 1 and an existing
\* party in Round 2, given a body.
C38_SupportedAugmentedAccepted ==
    /\ (kr.pc = "running" /\ is_some(kr.last.msg) /\ HonestMsg(kr, LastMsg)
           /\ SupportedProvider(KRProvider(LastMsg.sender))
           /\ (AttestationRequired(kr, LastMsg) => is_some(LastMsg.body.base.out_msg))) =>
          Passed(kr.last.res)
    /\ kr.pc = "running" =>
          \A msg \in KRMsgs :
              is_some(Outgoing(kr, msg.sender, msg.body.base)) <=>
                  (AttestationRequired(kr, msg) /\ is_some(msg.body.base.out_msg))

C38_Witness ==
    /\ kr.pc = "running" /\ is_some(kr.last.msg)
    /\ HonestMsg(kr, LastMsg)
    /\ LastMsg.body.base.round = 2
    /\ is_some(LastMsg.body.extra)
    /\ kr.last.res = KROk

-----------------------------------------------------------------------------
(* The honest run with parties at different speeds.                        *)

\* C33: in a run of honest parties over channels that keep each sender's
\* order, no call of handle_incoming returns OutOfOrderMessage, however far
\* one party is ahead of another.
C33_NoOutOfOrderInHonestRun ==
    run.pc = "run" => \A p \in Parties : run.err[p] # "OutOfOrderMessage"

-----------------------------------------------------------------------------
(* The phase of the orchestrator and its rejected calls.                   *)

\* C34: once the refresh machine exists it stays, is not made anew (its
\* round does not go back and its picked output stays picked), and the
\* init machine is left as it is: no call reaches it; wants_to_proceed and
\* proceed go to the machine of the current phase only.
C34_PhaseMonotonic ==
    /\ [](\A wants \in [init : BOOLEAN, refresh : BOOLEAN] :
             wants_to_proceed(self, wants)
                 = IF RefreshActive THEN wants.refresh ELSE wants.init)
    /\ [](RefreshActive =>
             /\ \A nd \in ND :
                   proceed(self, nd, produced).self.init_state_machine
                       = self.init_state_machine
             /\ \A msg \in Msgs(self), nd \in ND :
                   \A k \in 1..Len(handle_incoming(self, msg, nd, produced).delivered) :
                       handle_incoming(self, msg, nd, produced).delivered[k].to # "init")
    /\ [][RefreshActive =>
             /\ self'.refresh_state_machine # None
             /\ self'.init_state_machine = self.init_state_machine
             /\ self'.refresh_state_machine[1].round >= self.refresh_state_machine[1].round
             /\ self.refresh_state_machine[1].gone => self'.refresh_state_machine[1].gone]_vars

C34_Witness ==
    /\ RefreshActive
    /\ ret.op = "proceed" /\ ret.res = OkRes
    /\ self.refresh_state_machine[1].round = self.refresh_state_machine[1].total
    /\ sub_is_finished(self.init_state_machine)

\* C35: a handle_incoming call that returns OutOfOrderMessage changes
\* nothing of the orchestrator: not the composite queue, not a sub-machine
\* or its queue, not the phase, not the stored shares and key.
C35_RejectionChangesNothing ==
    [][(ret'.op = "handle_incoming" /\ ret'.res.err = "OutOfOrderMessage" /\ sent' = sent) =>
          (self' = self /\ produced' = produced)]_vars

C35_Witness ==
    /\ ret.op = "handle_incoming" /\ ret.res.err = "OutOfOrderMessage"
    /\ self.init_state_machine.message_queue # <<>>
    /\ ~RefreshActive

\* C36: a handle_incoming or proceed call in which the construction of the
\* refresh machine fails leaves the arguments of the next construction
\* (shares, local key, new-party classification) as they were.
C36_FailedTransitionKeepsArguments ==
    [][(ret'.op \in {"handle_incoming", "proceed"} /\ ret'.res.err = "Refresh"
           /\ self'.refresh_state_machine = None) =>
          key_refresh_args(self') = key_refresh_args(self)]_vars

-----------------------------------------------------------------------------
(* The index of a party in share removal and share addition.  The present  *)
(* ensemble is 1..OldParties; a removal leaves out one party and a map     *)
(* from old to new indices closes the gap, an addition appends one party.  *)

OldParties == 4

\* ShareRemoval::new: the index is the local key's.
ShareRemoval_try_new(a) ==
    ShareRemoval_new(a.local_key.i, a.n_parties, a.local_key.t,
                     IF a.is_initiator THEN 1 ELSE 0)

\* The index under which the refresh engine runs a party: the new party's
\* index, or the image of the local key's index under old_to_new_map.
refresh_party_ind(s, old_to_new_map) ==
    LET args == key_refresh_args(s)
    IN  IF is_some(args.new_party_index_option)
        THEN unwrap(args.new_party_index_option)
        ELSE old_to_new_map[s.idx]

\* The map that keeps the order of the parties that stay.
Reindex(removed) ==
    [j \in (1..OldParties) \ {removed} |-> IF j < removed THEN j ELSE j - 1]

IndexCalls ==
    {[op |-> "ShareRemoval::new",
      args |-> [local_key |-> [i |-> i, t |-> t, n |-> OldParties],
                n_parties |-> OldParties - 1, is_initiator |-> b],
      old_to_new_map |-> Reindex(r), done |-> FALSE, res |-> None] :
        r \in 1..OldParties, i \in 1..OldParties, t \in {1, 2}, b \in BOOLEAN}
    \cup
    {[op |-> "ShareAddition::new",
      args |-> [signing_share_option |-> IF i <= OldParties THEN Some("signing_share") ELSE None,
                sub_share_option |-> IF i <= OldParties THEN Some("sub_share") ELSE None,
                local_key_option |-> IF i <= OldParties
                                     THEN Some([i |-> i, t |-> t, n |-> OldParties])
                                     ELSE None,
                new_party_index_option |-> IF i <= OldParties THEN None ELSE Some(i),
                n_parties |-> OldParties + 1,
                current_threshold_option |-> IF i <= OldParties THEN None ELSE Some(t),
                current_n_parties_option |-> IF i <= OldParties THEN None
                                             ELSE Some(OldParties),
                is_initiator |-> b],
      old_to_new_map |-> [j \in 1..OldParties |-> j], done |-> FALSE, res |-> None] :
        i \in 1..(OldParties + 1), t \in {1, 2}, b \in BOOLEAN}

InitIndex ==
    /\ SelfIdle
    /\ kr = KRIdle
    /\ run = RunIdle
    /\ call \in {c \in IndexCalls :
                    c.op = "ShareRemoval::new" => c.args.local_key.i \in DOMAIN c.old_to_new_map}

\* What the machine reports and the index it refreshes under.
IndicesOf(s, old_to_new_map) ==
    [party_ind |-> party_ind(s), parties |-> parties(s),
     refresh_party_ind |-> refresh_party_ind(s, old_to_new_map)]

CallShareRemovalIndex ==
    /\ call.op = "ShareRemoval::new" /\ ~call.done
    /\ call' = Done(IndicesOf(ShareRemoval_try_new(call.args), call.old_to_new_map))
    /\ UNCHANGED <<self, ret, sent, produced, picked_ok, kr, run>>

CallShareAdditionIndex ==
    /\ call.op = "ShareAddition::new" /\ ~call.done
    /\ call' = Done(IndicesOf(unwrap(ShareAddition_try_new(call.args).built).machine,
                              call.old_to_new_map))
    /\ UNCHANGED <<self, ret, sent, produced, picked_ok, kr, run>>

NextIndex == CallShareRemovalIndex \/ CallShareAdditionIndex

SpecIndex == InitIndex /\ [][NextIndex]_vars

\* C40: party_ind() of a ShareAddition or ShareRemoval lies in 1..parties()
\* and is the index under which the party runs the refresh, also when
\* old_to_new_map gives the party a new index.
C40_IndexInRefreshedEnsemble ==
    (call.op \in {"ShareRemoval::new", "ShareAddition::new"} /\ call.done) =>
        /\ Res.party_ind \in 1..Res.parties
        /\ Res.party_ind = Res.refresh_party_ind

====
